---- MODULE Spec2Model ----
(***************************************************************************)
(* A model of the memory subsystem of stateful_agents: CoreMemory,         *)
(* ArchivalMemory, RecallMemory, the CommunicationManager mailbox and the  *)
(* Agent.send_message flow.                                                *)
(*                                                                         *)
(* Python str values are sequences of one-character strings, so that       *)
(* len(), slicing, lower() and the `in` substring test are computed as     *)
(* Python computes them.  Python lists are sequences, dicts are functions  *)
(* whose DOMAIN is the set of keys present.                                *)
(***************************************************************************)
EXTENDS Integers, Sequences, FiniteSets, TLC

\* ------------------------------------------------------------------ bounds

MaxBlockSize == 2      \* max_block_size ranges over 0..MaxBlockSize
MaxValueLen == 3       \* longest value handed to add_or_update
MaxCap == 2            \* max_messages ranges over 0..MaxCap
MaxAppends == 3        \* appends to recall memory since the last clear
MaxItems == 2          \* archival items stored at once
MaxAdds == 3           \* ArchivalMemory.add calls in one run
MaxClock == 1          \* time.time() ranges over 0..MaxClock seconds
MaxSends == 2          \* send_message calls in one run, all threads together
MaxQueue == 2          \* max_queue_size ranges over 0..MaxQueue
MaxReceives == 3       \* messages accepted by receive_message in one run
MaxRequests == 2       \* requests served by the server after the agents are loaded
MaxApiCalls == 2       \* create calls made on a provider's API client
MaxLimit == 2          \* the limit of search and get_recent ranges over 0..MaxLimit

\* ------------------------------------------------------- program constants

DefaultMaxBlockSize == 1024
DefaultMaxMessages == 1000
DefaultMaxQueueSize == 100
DefaultContextWindowLimit == 4096
RecallSearchLimit == 5        \* get_relevant_recall(query, limit=5)
MemoryInstructionsLen == 498  \* len(self._get_memory_instructions())

\* ----------------------------------------------------------- Python values

Min(a, b) == IF a < b THEN a ELSE b
Max(a, b) == IF a > b THEN a ELSE b

\* All sequences over S of length 0..n.
SeqUpTo(S, n) == UNION {[1..k -> S] : k \in 0..n}

\* s[i:] for a Python list or str s (i may be negative).
PySliceFrom(s, i) ==
  LET start == IF i < 0 THEN Max(Len(s) + i, 0) ELSE Min(i, Len(s))
  IN  SubSeq(s, start + 1, Len(s))

\* s[:j] for a Python list or str s (j may be negative).
PySliceTo(s, j) ==
  LET stop == IF j < 0 THEN Max(Len(s) + j, 0) ELSE Min(j, Len(s))
  IN  SubSeq(s, 1, stop)

\* str.lower() on the alphabet of the model.
LowerChar(c) ==
  CASE c = "A" -> "a"
    [] c = "B" -> "b"
    [] c = "L" -> "l"
    [] c = "M" -> "m"
    [] c = "T" -> "t"
    [] OTHER -> c
Lower(s) == [i \in 1..Len(s) |-> LowerChar(s[i])]

\* `q in s` for Python strs: q occurs in s as a contiguous substring.
Contains(s, q) ==
  \E i \in 0..(Len(s) - Len(q)) : SubSeq(s, i + 1, i + Len(q)) = q

\* A dict with no keys.
EmptyDict == [k \in {} |-> <<>>]

DictDelAll(d, k) == EmptyDict

\* d without key k.
DictDel(d, k) == [x \in DOMAIN d \ {k} |-> d[x]]

DictSetIfAbsent(d, k, v) ==
  [x \in DOMAIN d \cup {k} |-> IF x \in DOMAIN d THEN d[x] ELSE v]

\* d with d[k] = v.
DictSet(d, k, v) == [x \in DOMAIN d \cup {k} |-> IF x = k THEN v ELSE d[x]]

\* Python's None.
None == "None"

VARIABLES
  blocks,            \* CoreMemory.blocks
  max_block_size,    \* CoreMemory.max_block_size
  messages,          \* RecallMemory.messages
  max_messages,      \* RecallMemory.max_messages
  items,             \* ArchivalMemory.items
  now,               \* int(time.time())
  last,              \* the operation completed last, its arguments and result
  appended,          \* every message appended to recall since the last clear
  issued,            \* the ids ArchivalMemory.add has returned, in order
  message_queue,     \* CommunicationManager.message_queue
  max_queue_size,    \* CommunicationManager.max_queue_size
  accepted,          \* the messages receive_message has enqueued, in order
  drained,           \* the messages get_pending_messages has returned, in order
  system_prompt,     \* Agent.system_prompt (its length in characters)
  context_window_limit, \* Agent.context_window_limit
  generated,         \* the contexts _call_llm has been called with
  pc,                \* per calling thread: the statement it executes next
  local,             \* per calling thread: the local variables of its call
  tools,             \* ToolManager.tools, the registered tools in list order
  api_calls,         \* the create calls made on a provider's API client
  agents,            \* Server.agents: agent id -> the objects its Agent holds
  heap,              \* the store objects the server's agents hold, by reference
  served,            \* the requests the server has served
  database,          \* the tables of the server's SQLite database
  snapshot           \* the dict a caller holds from CoreMemory.get_all

vars == <<blocks, max_block_size, messages, max_messages, items, now,
          last, appended, issued, message_queue, max_queue_size, accepted,
          drained, system_prompt, context_window_limit, generated, pc, local,
          tools, api_calls, agents, heap, served, database, snapshot>>

coreVars == <<blocks, max_block_size>>
recallVars == <<messages, max_messages, appended>>
archivalVars == <<items, now, issued>>
mailboxVars == <<message_queue, max_queue_size, accepted, drained>>
agentVars == <<system_prompt, context_window_limit, generated>>
threadVars == <<pc, local>>
toolVars == <<tools>>
providerVars == <<api_calls>>
serverVars == <<agents, heap, served, database>>
callerVars == <<snapshot>>
otherVars ==
  <<mailboxVars, agentVars, threadVars, toolVars, providerVars, serverVars,
    callerVars>>

\* ------------------------------------------------------------- CoreMemory

Keys == {"persona", "k"}
Values == SeqUpTo({"a", "b"}, MaxValueLen)

\* The value add_or_update stores for `value`.
TruncateNever(value, size) == value
TruncateOneMore(value, size) ==
  IF Len(value) > size THEN PySliceTo(value, size + 1) ELSE value
Truncate(value, size) ==
  IF Len(value) > size THEN PySliceTo(value, size) ELSE value

CoreMemory_get(key) == IF key \in DOMAIN blocks THEN blocks[key] ELSE None

CoreMemory_has(key) == key \in DOMAIN blocks

CoreMemory_count == Cardinality(DOMAIN blocks)

CoreMemory_add_or_update(key, value) ==
  /\ blocks' = DictSet(blocks, key, Truncate(value, max_block_size))
  /\ last' = [op |-> "add_or_update", key |-> key, value |-> value,
              before |-> blocks]
  /\ UNCHANGED <<max_block_size, recallVars, archivalVars, otherVars>>

CoreMemory_delete(key) ==
  /\ blocks' = IF key \in DOMAIN blocks THEN DictDel(blocks, key) ELSE blocks
  /\ last' = [op |-> "core_delete", key |-> key, raised |-> None,
              before |-> blocks]
  /\ UNCHANGED <<max_block_size, recallVars, archivalVars, otherVars>>

CoreMemory_clear ==
  /\ blocks' = EmptyDict
  /\ last' = [op |-> "core_clear"]
  /\ UNCHANGED <<max_block_size, recallVars, archivalVars, otherVars>>

InitCoreMemory(sizes) ==
  /\ blocks = EmptyDict
  /\ max_block_size \in sizes

InitRecallMemory(caps) ==
  /\ messages = <<>>
  /\ max_messages \in caps
  /\ appended = <<>>

InitArchivalMemory ==
  /\ items = <<>>
  /\ now = 0
  /\ issued = <<>>

Threads == {"t1", "t2"}

NoLocals ==
  [message |-> None, phase |-> None, tmp |-> None, context |-> None, sends |-> 0]

InitThreads ==
  /\ pc = [t \in Threads |-> "idle"]
  /\ local = [t \in Threads |-> NoLocals]

InitMailbox(sizes) ==
  /\ message_queue = <<>>
  /\ max_queue_size \in sizes
  /\ accepted = <<>>
  /\ drained = <<>>

\* The tables of a new database file, each a dict from primary key to row.
EmptyDatabase ==
  [agents |-> EmptyDict, archival_memory |-> EmptyDict,
   recall_memory |-> EmptyDict]

\* The Agent fields where no Agent is constructed around the stores.
InitNoAgent ==
  /\ system_prompt = 0
  /\ context_window_limit = DefaultContextWindowLimit
  /\ generated = {}
  /\ tools = <<>>
  /\ api_calls = 0
  /\ agents = EmptyDict
  /\ heap = <<>>
  /\ served = 0
  /\ database = EmptyDatabase
  /\ snapshot = <<>>

\* The agent side and the mailbox of a store used on its own.
InitIdleAgent ==
  /\ InitNoAgent
  /\ InitMailbox({DefaultMaxQueueSize})
  /\ InitThreads

InitCore ==
  /\ InitIdleAgent
  /\ InitCoreMemory(0..MaxBlockSize)
  /\ InitRecallMemory({DefaultMaxMessages})
  /\ InitArchivalMemory
  /\ last = [op |-> "init"]

NextCore ==
  \/ \E key \in Keys, value \in Values : CoreMemory_add_or_update(key, value)
  \/ \E key \in Keys : CoreMemory_delete(key)
  \/ CoreMemory_clear

SpecCore == InitCore /\ [][NextCore]_vars

\* C6: after any sequence of add_or_update, delete and clear, for every
\* max_block_size >= 0, every stored block value has length at most
\* max_block_size.
C6_BlockSizeBounded ==
  \A key \in DOMAIN blocks : Len(blocks[key]) <= max_block_size

C6_Witness ==
  /\ last.op = "core_delete"
  /\ max_block_size > 0
  /\ \E key \in DOMAIN blocks : Len(blocks[key]) = max_block_size

\* The first n characters of v.
FirstChars(v, n) == [i \in 1..n |-> v[i]]

\* C7: add_or_update(k, v) followed by get(k) returns exactly the first
\* max_block_size characters of v when len(v) > max_block_size, and v unchanged
\* when len(v) <= max_block_size.
C7_TruncatedRoundTrip ==
  last.op = "add_or_update" =>
    CoreMemory_get(last.key) =
      IF Len(last.value) > max_block_size
      THEN FirstChars(last.value, max_block_size)
      ELSE last.value

C7_Witness ==
  /\ last.op = "add_or_update"
  /\ Len(last.value) > max_block_size
  /\ max_block_size > 0
  /\ CoreMemory_get(last.key) # last.value

\* ------------------------------------------------------------ RecallMemory

\* The contents and queries tried: the empty string, letters differing in
\* case only, and strings containing others as proper substrings.
Contents == {<<>>, <<"a">>, <<"A">>, <<"b">>, <<"a", "b">>, <<"B", "a">>}
AgentId == "agent"
Users == {"user"}

\* Message(content, sender_id, receiver_id); timestamp, message_type and
\* metadata are carried along unread by the memory stores.
Message(content, sender_id, receiver_id) ==
  [content |-> content, sender_id |-> sender_id, receiver_id |-> receiver_id]

InboundMessages == {Message(c, u, AgentId) : c \in Contents, u \in Users}
OutboundMessages == {Message(c, AgentId, u) : c \in Contents, u \in Users}

\* The list RecallMemory.add leaves in self.messages.
AppendAndTrim(msgs, message, cap) ==
  LET appendedList == Append(msgs, message)
  IN  IF Len(appendedList) > cap
      THEN PySliceFrom(appendedList, -cap)
      ELSE appendedList

RecallMemory_add(message) ==
  /\ Len(appended) < MaxAppends
  /\ messages' = AppendAndTrim(messages, message, max_messages)
  /\ appended' = Append(appended, message)
  /\ last' = [op |-> "recall_add", message |-> message, before |-> messages]
  /\ UNCHANGED <<max_messages, coreVars, archivalVars, otherVars>>

RecallMemory_clear ==
  /\ messages' = <<>>
  /\ appended' = <<>>
  /\ last' = [op |-> "recall_clear"]
  /\ UNCHANGED <<max_messages, coreVars, archivalVars, otherVars>>

RecallMemory_count == Len(messages)

InitRecall ==
  /\ InitIdleAgent
  /\ InitCoreMemory({DefaultMaxBlockSize})
  /\ InitRecallMemory(0..MaxCap)
  /\ InitArchivalMemory
  /\ last = [op |-> "init"]

NextRecall ==
  \/ \E message \in InboundMessages \cup OutboundMessages :
       RecallMemory_add(message)
  \/ RecallMemory_clear

SpecRecall == InitRecall /\ [][NextRecall]_vars

\* C1: in every state reachable by add and clear, for every max_messages >= 0
\* (0 included), the number of stored messages is at most max_messages.
C1_RecallBounded == Len(messages) <= max_messages

\* The last n elements of s, in order.
LastN(s, n) == [i \in 1..Min(n, Len(s)) |-> s[Len(s) - Min(n, Len(s)) + i]]

\* C2: after N > max_messages appends to an empty store the store holds
\* exactly the last max_messages appended entries in their original order;
\* an append evicts only from the oldest end, and nothing below capacity.
C2_KeepsLastMaxMessages ==
  /\ Len(appended) > max_messages => messages = LastN(appended, max_messages)
  /\ Len(appended) <= max_messages => messages = appended

\* ---------------------------------------------------------- ArchivalMemory

\* f"mem_{int(time.time())}_{len(self.items)}": the two numbers are separated
\* by "_", which no decimal numeral contains, so the string determines the
\* pair and the pair the string.
ItemId(time, count) == <<time, count>>

\* An id add never returns within the bounds: add runs with fewer than
\* MaxItems items stored.
AbsentId == ItemId(0, MaxItems)

\* ArchivalMemoryItem(id, content); timestamp defaults to time.time(), metadata
\* to {}.
ArchivalMemoryItem(id, content) ==
  [id |-> id, content |-> content, timestamp |-> now]

\* The test of search's loop: `query in item.content.lower()`, query already
\* lowered.
MatchesCaseSensitive(item, query) == Contains(item.content, query)
Matches(item, query) == Contains(Lower(item.content), query)

\* search's loop from item i on, `results` collected so far.
RECURSIVE SearchLoop(_, _, _, _, _)
SearchLoop(its, i, query, limit, results) ==
  IF i > Len(its) THEN results
  ELSE IF Matches(its[i], query)
       THEN LET r == Append(results, its[i])
            IN  IF Len(r) >= limit THEN r
                ELSE SearchLoop(its, i + 1, query, limit, r)
       ELSE SearchLoop(its, i + 1, query, limit, results)

ArchivalMemory_search(query, limit) ==
  SearchLoop(items, 1, Lower(query), limit, <<>>)

\* The index of the first item with id item_id, 0 when there is none.
FirstIndexOf(its, item_id) ==
  IF \E i \in 1..Len(its) : its[i].id = item_id
  THEN CHOOSE i \in 1..Len(its) :
         /\ its[i].id = item_id
         /\ \A j \in 1..(i - 1) : its[j].id # item_id
  ELSE 0

ArchivalMemory_get(item_id) ==
  IF FirstIndexOf(items, item_id) = 0 THEN None
  ELSE items[FirstIndexOf(items, item_id)]

PopLast(s, i) == SubSeq(s, 1, Len(s) - 1)

\* list.pop(i), i counted from 1.
Pop(s, i) == SubSeq(s, 1, i - 1) \o SubSeq(s, i + 1, Len(s))

ArchivalMemory_add(content) ==
  LET item_id == ItemId(now, Len(items))
  IN  /\ Len(items) < MaxItems
      /\ Len(issued) < MaxAdds
      /\ items' = Append(items, ArchivalMemoryItem(item_id, content))
      /\ issued' = Append(issued, item_id)
      /\ last' = [op |-> "archival_add", content |-> content, ret |-> item_id,
                  before |-> items]
      /\ UNCHANGED <<now, coreVars, recallVars, otherVars>>

ArchivalMemory_delete(item_id) ==
  LET i == FirstIndexOf(items, item_id)
  IN  /\ items' = IF i = 0 THEN items ELSE Pop(items, i)
      /\ last' = [op |-> "archival_delete", item_id |-> item_id, ret |-> (i # 0)]
      /\ UNCHANGED <<now, issued, coreVars, recallVars, otherVars>>

ArchivalMemory_clear ==
  /\ items' = <<>>
  /\ last' = [op |-> "archival_clear"]
  /\ UNCHANGED <<now, issued, coreVars, recallVars, otherVars>>

\* time.time() moves on to the next second.
Tick ==
  /\ now < MaxClock
  /\ now' = now + 1
  /\ UNCHANGED <<items, issued, last, coreVars, recallVars, otherVars>>

InitArchival ==
  /\ InitIdleAgent
  /\ InitCoreMemory({DefaultMaxBlockSize})
  /\ InitRecallMemory({DefaultMaxMessages})
  /\ InitArchivalMemory
  /\ last = [op |-> "init"]

NextArchival ==
  \/ \E content \in Contents : ArchivalMemory_add(content)
  \/ \E item_id \in {issued[i] : i \in 1..Len(issued)} \cup {AbsentId} :
       ArchivalMemory_delete(item_id)
  \/ ArchivalMemory_clear
  \/ Tick

SpecArchival == InitArchival /\ [][NextArchival]_vars

\* C8: every id returned by add differs from every id returned by an earlier
\* add on the same store, also when the earlier item has been deleted or
\* cleared and however many adds fall into one clock second.
C8_IdsNeverReused ==
  \A i, j \in 1..Len(issued) : i # j => issued[i] # issued[j]

\* C9: after any sequence of add and delete the ids of the stored items are
\* pairwise distinct.
C9_StoredIdsDistinct ==
  \A i, j \in 1..Len(items) : i # j => items[i].id # items[j].id

\* C10 as stated: add(c) followed by search(c, 1) returns an item whose
\* content equals c.
C10_RoundTripAsStated ==
  last.op = "archival_add" =>
    LET r == ArchivalMemory_search(last.content, 1)
    IN  Len(r) >= 1 /\ r[1].content = last.content

\* c occurs in the content of item, letter case ignored.
ContainsIgnoringCase(item, c) == Contains(Lower(item.content), Lower(c))

\* C10 (amended): add(c) followed by search(c, 1) returns exactly one item,
\* the earliest-inserted stored item whose content contains c ignoring case;
\* its content equals c whenever no item stored before the add contains c
\* ignoring case.
C10_RoundTrip ==
  last.op = "archival_add" =>
    LET r == ArchivalMemory_search(last.content, 1)
        c == last.content
    IN  /\ Len(r) = 1
        /\ \E i \in 1..Len(items) :
             /\ r[1] = items[i]
             /\ ContainsIgnoringCase(items[i], c)
             /\ \A j \in 1..(i - 1) : ~ContainsIgnoringCase(items[j], c)
        /\ (\A j \in 1..Len(last.before) :
              ~ContainsIgnoringCase(last.before[j], c))
           => r[1].content = c

C10_Witness ==
  /\ last.op = "archival_add"
  /\ Len(last.before) >= 1
  /\ \A j \in 1..Len(last.before) :
       ~ContainsIgnoringCase(last.before[j], last.content)
  /\ ArchivalMemory_search(last.content, 1)[1].content = last.content

\* ------------------------------------------------- RecallMemory.search

\* The test of search's loop: `query in content.lower()`, query already
\* lowered.
RecallMatches(message, query) == Contains(Lower(message.content), query)

\* search's loop over reversed(self.messages) from index i down, `results`
\* collected so far.
RECURSIVE RecallSearchLoop(_, _, _, _, _)
RecallSearchLoop(msgs, i, query, limit, results) ==
  IF i < 1 THEN results
  ELSE IF RecallMatches(msgs[i], query)
       THEN LET r == Append(results, msgs[i])
            IN  IF Len(r) >= limit THEN r
                ELSE RecallSearchLoop(msgs, i - 1, query, limit, r)
       ELSE RecallSearchLoop(msgs, i - 1, query, limit, results)

RecallMemory_searchOldestFirst(query, limit) ==
  SearchLoop(messages, 1, Lower(query), limit, <<>>)
RecallMemory_search(query, limit) ==
  RecallSearchLoop(messages, Len(messages), Lower(query), limit, <<>>)

\* ------------------------------------------------------ Agent.send_message

\* The text _call_llm returns.
PlaceholderResponse ==
  <<
     "T", "h", "i", "s", " ", "i", "s", " ", "a", " ", "p", "l",
     "a", "c", "e", "h", "o", "l", "d", "e", "r", " ", "r", "e",
     "s", "p", "o", "n", "s", "e", ".", " ", "A", "c", "t", "u",
     "a", "l", " ", "L", "L", "M", " ", "i", "n", "t", "e", "g",
     "r", "a", "t", "i", "o", "n", " ", "w", "i", "l", "l", " ",
     "b", "e", " ", "i", "m", "p", "l", "e", "m", "e", "n", "t",
     "e", "d", " ", "l", "a", "t", "e", "r", "."
  >>

\* The length of f"{base_prompt}\n\n{memory_instructions}\n\n{tool_instructions}".
BuildSystemPrompt(base_len, tool_len) ==
  base_len + 2 + MemoryInstructionsLen + 2 + tool_len

\* The context_window_limit values tried, in tokens: far below the system
\* prompt, just above the system prompt with one short message, the default.
ContextLimits == {10, 126, DefaultContextWindowLimit}

\* The message texts the callers send.
SentContents == {<<"a">>, <<"b">>}

\* The user_id each calling thread passes.
UserOf(t) == IF t = "t1" THEN "user" ELSE "peer"

SetLocal(t, field, value) == [local EXCEPT ![t][field] = value]

\* The send_message calls begun so far.
SendsStarted ==
  LET n(t) == local[t].sends + (IF pc[t] = "idle" THEN 0 ELSE 1)
  IN  n("t1") + n("t2")

\* send_message up to the first add_to_recall: build user_message.
Agent_send_message(t, content) ==
  /\ pc[t] = "idle"
  /\ SendsStarted < MaxSends
  /\ local' = [local EXCEPT ![t].message = Message(content, UserOf(t), AgentId),
                            ![t].phase = "user"]
  /\ pc' = [pc EXCEPT ![t] = "append"]
  /\ UNCHANGED <<last, coreVars, recallVars, archivalVars, mailboxVars, agentVars, toolVars, providerVars, serverVars, callerVars>>

\* RecallMemory.add, statement by statement: self.messages.append(message).
Add_append(t) ==
  /\ pc[t] = "append"
  /\ messages' = Append(messages, local[t].message)
  /\ appended' = Append(appended, local[t].message)
  /\ pc' = [pc EXCEPT ![t] = "check"]
  /\ UNCHANGED <<max_messages, last, local, coreVars, archivalVars, mailboxVars,
                 agentVars, toolVars, providerVars, serverVars, callerVars>>

\* Where a call goes on after add_to_recall.
AfterAdd(phase) == IF phase = "user" THEN "prepare" ELSE "return"

\* if len(self.messages) > self.max_messages:
Add_check(t) ==
  /\ pc[t] = "check"
  /\ pc' = [pc EXCEPT ![t] = IF Len(messages) > max_messages
                             THEN "slice" ELSE AfterAdd(local[t].phase)]
  /\ UNCHANGED <<last, local, coreVars, recallVars, archivalVars, mailboxVars,
                 agentVars, toolVars, providerVars, serverVars, callerVars>>

\* The right-hand side self.messages[-self.max_messages:], a new list.
Add_slice(t) ==
  /\ pc[t] = "slice"
  /\ local' = SetLocal(t, "tmp", PySliceFrom(messages, -max_messages))
  /\ pc' = [pc EXCEPT ![t] = "store"]
  /\ UNCHANGED <<last, coreVars, recallVars, archivalVars, mailboxVars, agentVars, toolVars, providerVars, serverVars, callerVars>>

\* The assignment self.messages = <the new list>.
Add_store(t) ==
  /\ pc[t] = "store"
  /\ messages' = local[t].tmp
  /\ local' = SetLocal(t, "tmp", None)
  /\ pc' = [pc EXCEPT ![t] = AfterAdd(local[t].phase)]
  /\ UNCHANGED <<max_messages, appended, last, coreVars, archivalVars,
                 mailboxVars, agentVars, toolVars, providerVars, serverVars, callerVars>>

Agent_prepare_context(t) ==
  /\ pc[t] = "prepare"
  /\ local' = SetLocal(t, "context",
       [system_prompt |-> system_prompt,
        core_memory |-> blocks,
        recall_memory |->
          RecallMemory_search(local[t].message.content, RecallSearchLimit),
        current_message |-> local[t].message])
  /\ pc' = [pc EXCEPT ![t] = "call"]
  /\ UNCHANGED <<last, coreVars, recallVars, archivalVars, mailboxVars, agentVars, toolVars, providerVars, serverVars, callerVars>>

Agent_call_llmSkipped(t) ==
  /\ pc[t] = "call"
  /\ local' = [local EXCEPT
       ![t].message = Message(PlaceholderResponse, AgentId, UserOf(t)),
       ![t].phase = "agent"]
  /\ pc' = [pc EXCEPT ![t] = "append"]
  /\ UNCHANGED <<agentVars, last, coreVars, recallVars, archivalVars,
                 mailboxVars, toolVars, providerVars, serverVars, callerVars>>

\* _call_llm(context), _process_response(response) and the construction of
\* agent_message.
Agent_call_llm(t) ==
  /\ pc[t] = "call"
  /\ generated' = generated \cup {local[t].context}
  /\ local' = [local EXCEPT
       ![t].message = Message(PlaceholderResponse, AgentId, UserOf(t)),
       ![t].phase = "agent"]
  /\ pc' = [pc EXCEPT ![t] = "append"]
  /\ UNCHANGED <<system_prompt, context_window_limit, last, coreVars,
                 recallVars, archivalVars, mailboxVars, toolVars, providerVars, serverVars, callerVars>>

\* return response
Agent_return(t) ==
  /\ pc[t] = "return"
  /\ last' = [op |-> "send_message", thread |-> t, ret |-> PlaceholderResponse]
  /\ local' = [local EXCEPT ![t] =
       [NoLocals EXCEPT !.sends = local[t].sends + 1]]
  /\ pc' = [pc EXCEPT ![t] = "idle"]
  /\ UNCHANGED <<coreVars, recallVars, archivalVars, mailboxVars, agentVars, toolVars, providerVars, serverVars, callerVars>>

\* Agent.__init__ with a fresh MemoryManager: the persona block is set and the
\* system prompt built around a one-character base prompt, no tools.
InitAgent ==
  /\ max_block_size = DefaultMaxBlockSize
  /\ blocks = DictSet(EmptyDict, "persona", Truncate(<<"a">>, max_block_size))
  /\ system_prompt = BuildSystemPrompt(1, 0)
  /\ context_window_limit \in ContextLimits
  /\ generated = {}
  /\ tools = <<>>
  /\ api_calls = 0
  /\ agents = EmptyDict
  /\ heap = <<>>
  /\ served = 0
  /\ database = EmptyDatabase
  /\ snapshot = <<>>

InitAgentThreads ==
  /\ InitAgent
  /\ InitRecallMemory(0..MaxCap)
  /\ InitArchivalMemory
  /\ InitMailbox({DefaultMaxQueueSize})
  /\ InitThreads
  /\ last = [op |-> "init"]

NextAgentThreads ==
  \E t \in Threads :
    \/ \E content \in SentContents : Agent_send_message(t, content)
    \/ Add_append(t)
    \/ Add_check(t)
    \/ Add_slice(t)
    \/ Add_store(t)
    \/ Agent_prepare_context(t)
    \/ Agent_call_llm(t)
    \/ Agent_return(t)

SpecAgentThreads == InitAgentThreads /\ [][NextAgentThreads]_vars

RECURSIVE SumLen(_)
SumLen(texts) ==
  IF texts = <<>> THEN 0 ELSE Len(Head(texts)) + SumLen(Tail(texts))

RECURSIVE SumValues(_)
SumValues(d) ==
  IF DOMAIN d = {} THEN 0
  ELSE LET k == CHOOSE x \in DOMAIN d : TRUE
       IN  Len(d[k]) + SumValues(DictDel(d, k))

\* The characters of {system prompt + core memory + recall slice} of a
\* context.
ContextChars(context) ==
  context.system_prompt + SumValues(context.core_memory)
    + SumLen([i \in 1..Len(context.recall_memory) |->
               context.recall_memory[i].content])

\* The token estimate of a context: characters / 4.
EstimateTokens(context) == ContextChars(context) \div 4

\* C3: send_message never reaches the generation call with a context whose
\* estimated token count exceeds the agent's context limit.
C3_NoOverBudgetGeneration ==
  \A context \in generated : EstimateTokens(context) <= context_window_limit

\* No thread is between the append and the end of RecallMemory.add.
NoAddInProgress == \A t \in Threads : pc[t] \notin {"check", "slice", "store"}

\* C4: concurrent recall appends on one agent do not interleave; no appended
\* message disappears other than by FIFO eviction of the oldest entries, so
\* between adds the store is the last max_messages entries appended.
C4_AppendsSerialized ==
  (max_messages >= 1 /\ NoAddInProgress) =>
    messages = LastN(appended, max_messages)

\* --------------------------------------------------- CommunicationManager

\* The messages handed to receive_message: for this agent, and for another.
MailboxMessages ==
  {Message(c, "peer", r) : c \in SentContents, r \in {AgentId, "other"}}

\* receive_message up to the append: the recipient check, then
\* self.message_queue.append(message).
Comm_receive_message(t, message) ==
  /\ pc[t] = "idle"
  /\ Len(accepted) < MaxReceives
  /\ IF message.receiver_id # AgentId
     THEN /\ last' = [op |-> "receive_message", message |-> message,
                      raised |-> "ValueError"]
          /\ UNCHANGED <<mailboxVars, threadVars>>
     ELSE /\ message_queue' = Append(message_queue, message)
          /\ accepted' = Append(accepted, message)
          /\ pc' = [pc EXCEPT ![t] = "queue_check"]
          /\ UNCHANGED <<max_queue_size, drained, local, last>>
  /\ UNCHANGED <<coreVars, recallVars, archivalVars, agentVars, toolVars, providerVars, serverVars, callerVars>>

\* if len(self.message_queue) > self.max_queue_size:
Comm_receive_check(t) ==
  /\ pc[t] = "queue_check"
  /\ IF Len(message_queue) > max_queue_size
     THEN /\ pc' = [pc EXCEPT ![t] = "queue_slice"]
          /\ UNCHANGED last
     ELSE /\ pc' = [pc EXCEPT ![t] = "idle"]
          /\ last' = [op |-> "receive_message", raised |-> None]
  /\ UNCHANGED <<local, coreVars, recallVars, archivalVars, mailboxVars,
                 agentVars, toolVars, providerVars, serverVars, callerVars>>

\* The right-hand side self.message_queue[-self.max_queue_size:], a new list.
Comm_receive_slice(t) ==
  /\ pc[t] = "queue_slice"
  /\ local' = SetLocal(t, "tmp", PySliceFrom(message_queue, -max_queue_size))
  /\ pc' = [pc EXCEPT ![t] = "queue_store"]
  /\ UNCHANGED <<last, coreVars, recallVars, archivalVars, mailboxVars, agentVars, toolVars, providerVars, serverVars, callerVars>>

\* The assignment self.message_queue = <the new list>.
Comm_receive_store(t) ==
  /\ pc[t] = "queue_store"
  /\ message_queue' = local[t].tmp
  /\ local' = SetLocal(t, "tmp", None)
  /\ pc' = [pc EXCEPT ![t] = "idle"]
  /\ last' = [op |-> "receive_message", raised |-> None]
  /\ UNCHANGED <<max_queue_size, accepted, drained, coreVars, recallVars,
                 archivalVars, agentVars, toolVars, providerVars, serverVars, callerVars>>

\* get_pending_messages, first statement: messages = self.message_queue.copy()
Comm_get_pending_copy(t) ==
  /\ pc[t] = "idle"
  /\ local' = SetLocal(t, "tmp", message_queue)
  /\ pc' = [pc EXCEPT ![t] = "drain_clear"]
  /\ UNCHANGED <<last, coreVars, recallVars, archivalVars, mailboxVars, agentVars, toolVars, providerVars, serverVars, callerVars>>

\* self.message_queue.clear(); return messages
Comm_get_pending_clear(t) ==
  /\ pc[t] = "drain_clear"
  /\ message_queue' = <<>>
  /\ drained' = drained \o local[t].tmp
  /\ last' = [op |-> "get_pending_messages", ret |-> local[t].tmp]
  /\ local' = SetLocal(t, "tmp", None)
  /\ pc' = [pc EXCEPT ![t] = "idle"]
  /\ UNCHANGED <<max_queue_size, accepted, coreVars, recallVars, archivalVars,
                 agentVars, toolVars, providerVars, serverVars, callerVars>>

Comm_has_pending_messages == Len(message_queue) > 0

InitMailboxThreads ==
  /\ InitNoAgent
  /\ InitCoreMemory({DefaultMaxBlockSize})
  /\ InitRecallMemory({DefaultMaxMessages})
  /\ InitArchivalMemory
  /\ InitMailbox(0..MaxQueue)
  /\ InitThreads
  /\ last = [op |-> "init"]

NextMailboxThreads ==
  \E t \in Threads :
    \/ \E message \in MailboxMessages : Comm_receive_message(t, message)
    \/ Comm_receive_check(t)
    \/ Comm_receive_slice(t)
    \/ Comm_receive_store(t)
    \/ Comm_get_pending_copy(t)
    \/ Comm_get_pending_clear(t)

SpecMailboxThreads == InitMailboxThreads /\ [][NextMailboxThreads]_vars

\* No thread is inside receive_message or get_pending_messages.
AllIdle == \A t \in Threads : pc[t] = "idle"

\* C5: drain is atomic with respect to concurrent receive_message calls: as
\* long as the queue bound has evicted nothing, every accepted message has
\* been returned by exactly one drain or is still queued, in arrival order.
C5_DrainAtomic ==
  (AllIdle /\ Len(accepted) <= max_queue_size) =>
    drained \o message_queue = accepted

\* ------------------------------------------- search as an operation

\* A call of ArchivalMemory.search: the store is left alone.
Archival_search(query, limit) ==
  /\ last' = [op |-> "archival_search", query |-> query, limit |-> limit,
              ret |-> ArchivalMemory_search(query, limit)]
  /\ UNCHANGED <<archivalVars, coreVars, recallVars, otherVars>>

NextArchivalSearch ==
  \/ NextArchival
  \/ \E query \in Contents, limit \in 0..MaxLimit : Archival_search(query, limit)

SpecArchivalSearch == InitArchival /\ [][NextArchivalSearch]_vars

\* The elements of s that contain q ignoring case, in the order of s.
MatchingIn(s, q) == SelectSeq(s, LAMBDA x : ContainsIgnoringCase(x, q))

\* C11: for every query and every limit >= 0, search returns exactly the
\* first min(limit, m) of the m stored items whose content contains the query
\* ignoring case, in insertion order, and nothing else.
C11_ArchivalSearchFirstMatches ==
  last.op = "archival_search" =>
    LET m == MatchingIn(items, last.query)
    IN  last.ret = SubSeq(m, 1, Min(last.limit, Len(m)))

\* A call of RecallMemory.search: the store is left alone.
Recall_search(query, limit) ==
  /\ last' = [op |-> "recall_search", query |-> query, limit |-> limit,
              ret |-> RecallMemory_search(query, limit)]
  /\ UNCHANGED <<recallVars, coreVars, archivalVars, otherVars>>

\* self.messages[-limit:] if self.messages else []
RecallMemory_get_recent(limit) ==
  IF messages # <<>> THEN PySliceFrom(messages, -limit) ELSE <<>>

\* A call of RecallMemory.get_recent: the store is left alone.
Recall_get_recent(limit) ==
  /\ last' = [op |-> "get_recent", limit |-> limit,
              ret |-> RecallMemory_get_recent(limit), before |-> messages]
  /\ UNCHANGED <<recallVars, coreVars, archivalVars, otherVars>>

NextRecallSearch ==
  \/ NextRecall
  \/ \E query \in Contents, limit \in 0..MaxLimit : Recall_search(query, limit)
  \/ \E limit \in 0..MaxLimit : Recall_get_recent(limit)

SpecRecallSearch == InitRecall /\ [][NextRecallSearch]_vars

\* s back to front.
Reverse(s) == [i \in 1..Len(s) |-> s[Len(s) + 1 - i]]

\* C12: for every query and every limit >= 0, search returns exactly the
\* min(limit, m) most recently appended of the m stored messages whose content
\* contains the query ignoring case, most recent first.
C12_RecallSearchMostRecentFirst ==
  last.op = "recall_search" =>
    LET m == Reverse(MatchingIn(messages, last.query))
    IN  last.ret = SubSeq(m, 1, Min(last.limit, Len(m)))

\* C14: for every limit >= 0 (0 included), get_recent(limit) returns exactly
\* the last min(limit, count) stored messages in insertion order and does not
\* modify the store.
C14_GetRecentLastMessages ==
  last.op = "get_recent" =>
    /\ last.ret = LastN(messages, last.limit)
    /\ messages = last.before

\* ------------------------------ the same contents in recall and archival

\* The contents stored in both stores and searched for.
SharedContents == {<<"a">>, <<"A">>, <<"b">>}

\* RecallMemory.search and ArchivalMemory.search called with the same query
\* and limit.
Both_search(query, limit) ==
  /\ last' = [op |-> "both_search", query |-> query, limit |-> limit,
              recall |-> RecallMemory_search(query, limit),
              archival |-> ArchivalMemory_search(query, limit)]
  /\ UNCHANGED <<recallVars, coreVars, archivalVars, otherVars>>

NextBothStores ==
  \/ \E content \in SharedContents, user \in Users :
       RecallMemory_add(Message(content, user, AgentId))
  \/ \E content \in SharedContents : ArchivalMemory_add(content)
  \/ \E query \in SharedContents, limit \in 0..MaxLimit :
       Both_search(query, limit)

SpecBothStores == InitArchival /\ [][NextBothStores]_vars

\* The contents of a list of messages or items.
ContentsOf(s) == [i \in 1..Len(s) |-> s[i].content]

\* The case of C13: both stores hold the same sequence of contents, nothing
\* has been evicted from recall, and the query of the last search matches at
\* least two entries, no more than its limit.
SameContentsSearched ==
  /\ last.op = "both_search"
  /\ ContentsOf(messages) = ContentsOf(items)
  /\ messages = appended
  /\ Len(MatchingIn(items, last.query)) >= 2
  /\ last.limit >= Len(MatchingIn(items, last.query))

\* C13 as stated: in that case the contents returned by recall search are
\* the reverse of the contents returned by archival search, so the two
\* returned orders differ.
C13_OrdersDifferAsStated ==
  SameContentsSearched =>
    /\ ContentsOf(last.recall) = Reverse(ContentsOf(last.archival))
    /\ ContentsOf(last.recall) # ContentsOf(last.archival)

\* C13 (amended): in that case the contents returned by recall search are
\* the reverse of the contents returned by archival search; the two returned
\* sequences differ unless the matched contents read the same in both
\* directions.
C13_RecallIsReverseOfArchival ==
  SameContentsSearched =>
    LET matched == ContentsOf(MatchingIn(items, last.query))
    IN  /\ ContentsOf(last.recall) = Reverse(ContentsOf(last.archival))
        /\ Len(last.recall) = Len(matched)
        /\ matched # Reverse(matched) =>
             ContentsOf(last.recall) # ContentsOf(last.archival)

C13_Witness ==
  /\ SameContentsSearched
  /\ ContentsOf(last.recall) # ContentsOf(last.archival)
  /\ Len(last.recall) = 2

\* ------------------------------------ CommunicationManager, one caller

RecipientAlwaysOk(message) == TRUE
RecipientOkUnlessSender(message) == message.receiver_id # message.sender_id

\* The negation of the test message.receiver_id != self.agent_id.
RecipientOk(message) == message.receiver_id = AgentId

\* if len(queue) > max_queue_size: queue = queue[-max_queue_size:]
TrimQueue(queue) ==
  IF Len(queue) > max_queue_size
  THEN PySliceFrom(queue, -max_queue_size)
  ELSE queue

\* A whole call of receive_message.
CommunicationManager_receive_message(message) ==
  /\ Len(accepted) < MaxReceives
  /\ IF ~RecipientOk(message)
     THEN /\ last' = [op |-> "receive_message", message |-> message,
                      raised |-> "ValueError", before |-> message_queue]
          /\ UNCHANGED mailboxVars
     ELSE /\ message_queue' = TrimQueue(Append(message_queue, message))
          /\ accepted' = Append(accepted, message)
          /\ last' = [op |-> "receive_message", message |-> message,
                      raised |-> None, before |-> message_queue]
          /\ UNCHANGED <<max_queue_size, drained>>
  /\ UNCHANGED <<coreVars, recallVars, archivalVars, agentVars, threadVars, toolVars, providerVars, serverVars, callerVars>>

\* A whole call of get_pending_messages: copy, clear, return the copy.
CommunicationManager_get_pending_messages ==
  /\ message_queue' = <<>>
  /\ drained' = drained \o message_queue
  /\ last' = [op |-> "get_pending_messages", ret |-> message_queue,
              before |-> message_queue]
  /\ UNCHANGED <<max_queue_size, accepted, coreVars, recallVars, archivalVars,
                 agentVars, threadVars, toolVars, providerVars, serverVars, callerVars>>

InitMailboxOnly ==
  /\ InitNoAgent
  /\ InitCoreMemory({DefaultMaxBlockSize})
  /\ InitRecallMemory({DefaultMaxMessages})
  /\ InitArchivalMemory
  /\ InitMailbox(0..MaxQueue)
  /\ InitThreads
  /\ last = [op |-> "init"]

NextMailbox ==
  \/ \E message \in MailboxMessages :
       CommunicationManager_receive_message(message)
  \/ CommunicationManager_get_pending_messages

SpecMailbox == InitMailboxOnly /\ [][NextMailbox]_vars

\* C15: for every max_queue_size >= 0, 0 included, the mailbox queue never
\* holds more than max_queue_size messages.
C15_QueueBounded == Len(message_queue) <= max_queue_size

\* C16: the first drain after N > max_queue_size correctly addressed
\* messages returns the last max_queue_size of them in arrival order and
\* empties the mailbox; a drain of an empty mailbox returns the empty list.
C16_DrainReturnsLastMaxQueueSize ==
  last.op = "get_pending_messages" =>
    /\ message_queue = <<>>
    /\ ~Comm_has_pending_messages
    /\ (drained = last.ret /\ Len(accepted) > max_queue_size) =>
         last.ret = LastN(accepted, max_queue_size)
    /\ last.before = <<>> => last.ret = <<>>

\* C17: receive_message of a message addressed to another agent raises and
\* leaves the queue as it was: nothing enqueued, nothing evicted.
C17_WrongRecipientRejected ==
  (last.op = "receive_message" /\ last.message.receiver_id # AgentId) =>
    /\ last.raised = "ValueError"
    /\ message_queue = last.before

C17_Witness ==
  /\ last.op = "receive_message"
  /\ last.message.receiver_id # AgentId
  /\ last.raised = "ValueError"
  /\ message_queue # <<>>

\* ------------------------------------------------------------ ToolManager

\* A Tool: its name, parameters (the keys of the schema dict),
\* required_params and function. function names the handler the tool is
\* bound to, None where the tool has no implementation.
Tool(name, parameters, required_params, function) ==
  [name |-> name, parameters |-> parameters,
   required_params |-> required_params, function |-> function]

\* The three tools add_memory_tools registers, in its order.
MemoryTools ==
  << Tool("core_memory_add", {"key", "value"}, <<"key", "value">>,
          "add_or_update"),
     Tool("core_memory_get", {"key"}, <<"key">>, "get"),
     Tool("core_memory_delete", {"key"}, <<"key">>, "delete") >>

\* Tools a caller registers itself: without an implementation, under a name
\* of its own, and in place of a memory tool.
CustomTools ==
  { Tool("custom", {}, <<>>, None),
    Tool("custom", {}, <<"key">>, "get"),
    Tool("core_memory_get", {"key"}, <<>>, "get") }

\* The names execute_tool is called with; "nonexistent" is never registered.
ToolNames ==
  {"core_memory_add", "core_memory_get", "core_memory_delete", "custom",
   "nonexistent"}

\* The keyword arguments execute_tool is called with.
ToolKeys == {"k"}
ToolValues == {<<"a">>, <<"b">>}
ToolKwargs ==
  {EmptyDict}
  \cup {[key |-> k] : k \in ToolKeys}
  \cup {[value |-> v] : v \in ToolValues}
  \cup {[key |-> k, value |-> v] : k \in ToolKeys, v \in ToolValues}

\* The position of the first tool of ts named name, 0 where there is none.
IndexOfName(ts, name) ==
  IF \E i \in 1..Len(ts) : ts[i].name = name
  THEN CHOOSE i \in 1..Len(ts) :
         /\ ts[i].name = name
         /\ \A j \in 1..(i - 1) : ts[j].name # name
  ELSE 0

ToolManager_get_toolFirst(name) ==
  IF tools = <<>> THEN <<>> ELSE <<tools[1]>>

\* get_tool: the first tool with that name, or None. The Optional[Tool] is
\* a sequence of at most one tool, <<>> for None.
ToolManager_get_tool(name) ==
  IF IndexOfName(tools, name) = 0
  THEN <<>>
  ELSE <<tools[IndexOfName(tools, name)]>>

RegisterToolAppendOnly(ts, tool) == Append(ts, tool)

\* register_tool on the list ts: the first tool with the same name is
\* removed, then the tool is appended.
RegisterTool(ts, tool) ==
  LET i == IndexOfName(ts, tool.name)
  IN  IF i = 0
      THEN Append(ts, tool)
      ELSE Append(SubSeq(ts, 1, i - 1) \o SubSeq(ts, i + 1, Len(ts)), tool)

CallHandlerUntruncated(function, kwargs, store) ==
  [raised |-> None, ret |-> <<>>, invoked |-> 1,
   blocks |-> IF function = "add_or_update"
              THEN DictSet(store, kwargs.key, kwargs.value) ELSE store]

\* The parameters of the lambda each handler is.
HandlerParams(function) ==
  IF function = "add_or_update" THEN {"key", "value"} ELSE {"key"}

\* self.function(**kwargs) on the core memory store: what is raised, what
\* is returned (<<>> for None, <<v>> for a value v), whether the handler
\* ran, and the blocks afterwards. Keyword arguments that are not exactly
\* the lambda's parameters make the call raise TypeError.
CallHandler(function, kwargs, store) ==
  IF DOMAIN kwargs # HandlerParams(function)
  THEN [raised |-> "TypeError", ret |-> <<>>, invoked |-> 0, blocks |-> store]
  ELSE IF function = "add_or_update"
  THEN [raised |-> None, ret |-> <<>>, invoked |-> 1,
        blocks |-> DictSet(store, kwargs.key,
                           Truncate(kwargs.value, max_block_size))]
  ELSE IF function = "get"
  THEN [raised |-> None,
        ret |-> IF kwargs.key \in DOMAIN store
                THEN <<store[kwargs.key]>> ELSE <<>>,
        invoked |-> 1, blocks |-> store]
  ELSE [raised |-> None, ret |-> <<>>, invoked |-> 1,
        blocks |-> IF kwargs.key \in DOMAIN store
                   THEN DictDel(store, kwargs.key) ELSE store]

\* Tool.execute(**kwargs).
Tool_execute(tool, kwargs, store) ==
  IF tool.function = None
  THEN [raised |-> "ValueError: no implementation", ret |-> <<>>,
        invoked |-> 0, blocks |-> store]
  ELSE IF \E i \in 1..Len(tool.required_params) :
            tool.required_params[i] \notin DOMAIN kwargs
  THEN [raised |-> "ValueError: missing parameter", ret |-> <<>>,
        invoked |-> 0, blocks |-> store]
  ELSE CallHandler(tool.function, kwargs, store)

ToolManager_register_tool(tool) ==
  /\ tools' = RegisterTool(tools, tool)
  /\ last' = [op |-> "register_tool", tool |-> tool, before |-> tools]
  /\ UNCHANGED <<coreVars, recallVars, archivalVars, mailboxVars, agentVars,
                 threadVars, providerVars, serverVars, callerVars>>

ToolManager_add_memory_tools ==
  /\ tools' = RegisterTool(RegisterTool(RegisterTool(tools, MemoryTools[1]),
                                        MemoryTools[2]), MemoryTools[3])
  /\ last' = [op |-> "add_memory_tools", before |-> tools]
  /\ UNCHANGED <<coreVars, recallVars, archivalVars, mailboxVars, agentVars,
                 threadVars, providerVars, serverVars, callerVars>>

ToolManager_execute_tool(name, kwargs) ==
  LET tool == ToolManager_get_tool(name)
      out == IF tool = <<>>
             THEN [raised |-> "ValueError: not found", ret |-> <<>>,
                   invoked |-> 0, blocks |-> blocks]
             ELSE Tool_execute(tool[1], kwargs, blocks)
  IN  /\ blocks' = out.blocks
      /\ last' = [op |-> "execute_tool", name |-> name, kwargs |-> kwargs,
                  raised |-> out.raised, ret |-> out.ret,
                  invoked |-> out.invoked, tools_before |-> tools,
                  blocks_before |-> blocks]
      /\ UNCHANGED <<max_block_size, recallVars, archivalVars, mailboxVars,
                     agentVars, threadVars, toolVars, providerVars, serverVars, callerVars>>

InitTools ==
  /\ InitIdleAgent
  /\ InitCoreMemory({DefaultMaxBlockSize})
  /\ InitRecallMemory({DefaultMaxMessages})
  /\ InitArchivalMemory
  /\ last = [op |-> "init"]

NextTools ==
  \/ \E tool \in CustomTools : ToolManager_register_tool(tool)
  \/ ToolManager_add_memory_tools
  \/ \E name \in ToolNames, kwargs \in ToolKwargs :
       ToolManager_execute_tool(name, kwargs)

SpecTools == InitTools /\ [][NextTools]_vars

\* The last operation was execute_tool with a name registered at the call.
ExecutedRegistered ==
  /\ last.op = "execute_tool"
  /\ IndexOfName(last.tools_before, last.name) # 0

\* C18: execute_tool with a name that is not registered fails with the
\* unknown-tool error, invokes no handler, and leaves the registry and the
\* core memory unchanged.
C18_UnknownToolRejected ==
  (last.op = "execute_tool" /\ IndexOfName(last.tools_before, last.name) = 0) =>
    /\ last.raised = "ValueError: not found"
    /\ last.invoked = 0
    /\ tools = last.tools_before
    /\ blocks = last.blocks_before

C18_Witness ==
  /\ last.op = "execute_tool"
  /\ IndexOfName(last.tools_before, last.name) = 0
  /\ last.raised = "ValueError: not found"
  /\ DOMAIN last.kwargs = {"key", "value"}
  /\ Len(tools) >= 3
  /\ blocks # EmptyDict

\* C19: execute_tool on a registered tool with a required parameter absent
\* fails with the missing-parameter error before the handler is invoked, the
\* store unchanged; with all required parameters present the handler is
\* invoked exactly once and its result is returned unmodified.
C19_RequiredParametersChecked ==
  ExecutedRegistered =>
    LET tool == last.tools_before[IndexOfName(last.tools_before, last.name)]
        missing == \E i \in 1..Len(tool.required_params) :
                     tool.required_params[i] \notin DOMAIN last.kwargs
    IN  /\ missing =>
             /\ last.raised = "ValueError: missing parameter"
             /\ last.invoked = 0
             /\ blocks = last.blocks_before
        /\ ~missing =>
             /\ last.raised = None
             /\ last.invoked = 1
             /\ last.ret =
                  IF tool.function = "get"
                     /\ last.kwargs.key \in DOMAIN last.blocks_before
                  THEN <<last.blocks_before[last.kwargs.key]>>
                  ELSE <<>>

\* C20: starting from the empty registry, tool names are pairwise distinct;
\* register_tool of an existing name replaces the old definition (get_tool
\* returns the new one, the number of tools does not grow), and the other
\* tools keep their relative order.
C20_RegisterReplacesByName ==
  /\ \A i, j \in 1..Len(tools) : i # j => tools[i].name # tools[j].name
  /\ last.op = "register_tool" =>
       LET OtherName(t) == t.name # last.tool.name
       IN  /\ ToolManager_get_tool(last.tool.name) = <<last.tool>>
           /\ Len(tools) = Len(last.before)
                + (IF IndexOfName(last.before, last.tool.name) = 0
                   THEN 1 ELSE 0)
           /\ SelectSeq(tools, OtherName) = SelectSeq(last.before, OtherName)

C20_Witness ==
  /\ last.op = "register_tool"
  /\ Len(last.before) >= 3
  /\ last.before[1].name = last.tool.name
  /\ last.before[1] # last.tool
  /\ Len(tools) = Len(last.before)

\* C21: for every tool held in the registry, the required parameter names
\* are a subset of the keys of its parameter schema.
C21_RequiredWithinSchema ==
  \A i \in 1..Len(tools) :
    \A j \in 1..Len(tools[i].required_params) :
      tools[i].required_params[j] \in tools[i].parameters

\* ------------------------------- the memory tools and the store they use

\* add_memory_tools(core_memory), the three tools called with the arguments
\* their handlers take, and direct calls on the same CoreMemory.
MemoryToolValues == {<<>>, <<"a">>, <<"b", "a">>, <<"a", "b", "b">>}

NextMemoryTools ==
  \/ \E key \in Keys, value \in MemoryToolValues :
       CoreMemory_add_or_update(key, value)
  \/ \E key \in Keys : CoreMemory_delete(key)
  \/ CoreMemory_clear
  \/ \E tool \in CustomTools : ToolManager_register_tool(tool)
  \/ ToolManager_add_memory_tools
  \/ \E key \in Keys, value \in MemoryToolValues :
       ToolManager_execute_tool("core_memory_add",
                                [key |-> key, value |-> value])
  \/ \E key \in Keys, name \in {"core_memory_get", "core_memory_delete"} :
       ToolManager_execute_tool(name, [key |-> key])

SpecMemoryTools == InitCore /\ [][NextMemoryTools]_vars

\* The names and the required parameters of the tools of a registry.
NamesAndRequired(ts) ==
  [i \in 1..Len(ts) |-> <<ts[i].name, ts[i].required_params>>]

\* The tools of a registry that have the name of a memory tool.
NamedAsMemoryTool(t) ==
  t.name \in {"core_memory_add", "core_memory_get", "core_memory_delete"}

\* The last operation was the execution of a tool that add_memory_tools
\* registered.
MemoryToolExecuted(name) ==
  /\ last.op = "execute_tool"
  /\ last.name = name
  /\ \E i \in 1..Len(last.tools_before) :
       /\ last.tools_before[i].name = name
       /\ last.tools_before[i] \in {MemoryTools[k] : k \in 1..3}

\* C22: after add_memory_tools the memory tools of the registry are exactly
\* core_memory_add (key, value), core_memory_get (key) and
\* core_memory_delete (key), the whole registry where it was empty before,
\* and executing them changes the store and returns what add_or_update, get
\* and delete on that CoreMemory do, truncation to max_block_size included.
C22_MemoryToolsAreStoreCalls ==
  /\ last.op = "add_memory_tools" =>
       /\ NamesAndRequired(SelectSeq(tools, NamedAsMemoryTool)) =
            << <<"core_memory_add", <<"key", "value">> >>,
               <<"core_memory_get", <<"key">> >>,
               <<"core_memory_delete", <<"key">> >> >>
       /\ last.before = <<>> => Len(tools) = 3
  /\ MemoryToolExecuted("core_memory_add") =>
       /\ last.raised = None /\ last.invoked = 1 /\ last.ret = <<>>
       /\ blocks = DictSet(last.blocks_before, last.kwargs.key,
                           Truncate(last.kwargs.value, max_block_size))
  /\ MemoryToolExecuted("core_memory_get") =>
       /\ last.raised = None /\ last.invoked = 1
       /\ blocks = last.blocks_before
       /\ last.ret = IF last.kwargs.key \in DOMAIN blocks
                     THEN <<blocks[last.kwargs.key]>> ELSE <<>>
  /\ MemoryToolExecuted("core_memory_delete") =>
       /\ last.raised = None /\ last.invoked = 1 /\ last.ret = <<>>
       /\ blocks = IF last.kwargs.key \in DOMAIN last.blocks_before
                   THEN DictDel(last.blocks_before, last.kwargs.key)
                   ELSE last.blocks_before

C22_Witness ==
  /\ MemoryToolExecuted("core_memory_add")
  /\ max_block_size = 1
  /\ Len(last.kwargs.value) = 2
  /\ last.kwargs.key \in DOMAIN last.blocks_before
  /\ DOMAIN blocks = Keys

\* ------------------------------------------------- the LLM providers

Providers == {"openai", "anthropic"}

\* OpenAIProvider.MODEL_CONTEXT_LIMITS and AnthropicProvider's.
MODEL_CONTEXT_LIMITS ==
  [openai |->
     [x \in {"gpt-4-turbo", "gpt-4-0125-preview", "gpt-4-1106-preview",
             "gpt-4", "gpt-4-32k", "gpt-3.5-turbo", "gpt-3.5-turbo-16k"} |->
        CASE x \in {"gpt-4-turbo", "gpt-4-0125-preview",
                    "gpt-4-1106-preview"} -> 128000
          [] x = "gpt-4" -> 8192
          [] x = "gpt-4-32k" -> 32768
          [] OTHER -> 16385],
   anthropic |->
     [x \in {"claude-3-opus-20240229", "claude-3-sonnet-20240229",
             "claude-3-haiku-20240307", "claude-2.1", "claude-2.0",
             "claude-instant-1.2"} |->
        IF x \in {"claude-2.0", "claude-instant-1.2"}
        THEN 100000 ELSE 200000]]

get_max_context_size(provider, model) ==
  IF model \in DOMAIN MODEL_CONTEXT_LIMITS[provider]
  THEN MODEL_CONTEXT_LIMITS[provider][model]
  ELSE IF provider = "openai" THEN 4096 ELSE 100000

\* The models generate is called with, one of them in neither table.
Models == {"gpt-4", "claude-2.0", "claude-3-opus-20240229", "unknown"}

\* The token counts of the messages plus the system prompt that generate is
\* called with: at and just above every limit of those models.
TokenCounts ==
  {100, 4096, 4097, 8192, 8193, 100000, 100001, 200000, 200001}

\* LLMProvider.fits_in_context and get_context_overflow on messages and a
\* system prompt of that many tokens: the count against the model's limit.
fits_in_context(provider, tokens, model) ==
  tokens <= get_max_context_size(provider, model)

get_context_overflow(provider, tokens, model) ==
  Max(0, tokens - get_max_context_size(provider, model))

GenerateCheckedInsideTry(fits, api_fails) ==
  IF ~fits
  THEN [raised |-> "RuntimeError", client_calls |-> 0]
  ELSE [raised |-> IF api_fails THEN "RuntimeError" ELSE None,
        client_calls |-> 1]

\* generate from the context check on: what is raised, and the create calls
\* made on self.client. The check stands before the try block; any
\* exception of the create call or of the processing of its response
\* becomes a RuntimeError.
Generate(fits, api_fails) ==
  IF ~fits
  THEN [raised |-> "ValueError", client_calls |-> 0]
  ELSE [raised |-> IF api_fails THEN "RuntimeError" ELSE None,
        client_calls |-> 1]

Provider_generate(provider, model, tokens, api_fails) ==
  LET fits == fits_in_context(provider, tokens, model)
      out == Generate(fits, api_fails)
  IN  /\ api_calls + out.client_calls <= MaxApiCalls
      /\ api_calls' = api_calls + out.client_calls
      /\ last' = [op |-> "generate", provider |-> provider, model |-> model,
                  tokens |-> tokens, fits |-> fits,
                  overflow |-> IF fits THEN 0
                               ELSE get_context_overflow(provider, tokens,
                                                         model),
                  raised |-> out.raised, calls_before |-> api_calls]
      /\ UNCHANGED <<coreVars, recallVars, archivalVars, mailboxVars,
                     agentVars, threadVars, toolVars, serverVars, callerVars>>

NextProvider ==
  \E provider \in Providers, model \in Models, tokens \in TokenCounts,
     api_fails \in BOOLEAN :
    Provider_generate(provider, model, tokens, api_fails)

SpecProvider == InitCore /\ [][NextProvider]_vars

NextAgentOne ==
  \/ \E content \in SentContents : Agent_send_message("t1", content)
  \/ Add_append("t1")
  \/ Add_check("t1")
  \/ Add_slice("t1")
  \/ Add_store("t1")
  \/ Agent_prepare_context("t1")
  \/ Agent_call_llm("t1")
  \/ Agent_return("t1")

\* An agent whose recall memory has a small or the default max_messages.
InitAgentOne ==
  /\ InitAgent
  /\ InitRecallMemory((0..MaxCap) \cup {DefaultMaxMessages})
  /\ InitArchivalMemory
  /\ InitMailbox({DefaultMaxQueueSize})
  /\ InitThreads
  /\ last = [op |-> "init"]

SpecAgentOne == InitAgentOne /\ [][NextAgentOne]_vars

\* The call in progress has appended its inbound message and not yet its
\* response.
InboundAppended ==
  \/ pc["t1"] \in {"prepare", "call"}
  \/ pc["t1"] = "append" /\ local["t1"].phase = "agent"

\* The call in progress has appended its response.
ResponseAppended ==
  /\ pc["t1"] \in {"check", "slice", "store", "return"}
  /\ local["t1"].phase = "agent"

\* C24: a send_message call appends the inbound message to recall memory,
\* then assembles the context, then invokes generation, then appends the
\* response, then returns; where nothing has been evicted the call has added
\* exactly two entries, the inbound message (receiver = agent id) and right
\* after it the response (sender = agent id).
C24_SendMessageOrder ==
  LET l == local["t1"]
      n == Len(appended)
  IN  /\ pc["t1"] = "append" /\ l.phase = "user" => n = 2 * l.sends
      /\ InboundAppended =>
           /\ n = 2 * l.sends + 1
           /\ appended[n].receiver_id = AgentId
           /\ appended[n].sender_id = UserOf("t1")
           /\ n <= max_messages => messages = appended
      /\ pc["t1"] = "prepare" => appended[n] = l.message
      /\ pc["t1"] = "call" =>
           /\ l.context.current_message = appended[n]
           /\ l.context.recall_memory
                = RecallMemory_search(appended[n].content, RecallSearchLimit)
      /\ pc["t1"] = "append" /\ l.phase = "agent" =>
           /\ l.context \in generated
           /\ l.context.current_message = appended[n]
      /\ ResponseAppended =>
           /\ n = 2 * l.sends + 2
           /\ l.context \in generated
           /\ appended[n - 1] = l.context.current_message
           /\ appended[n - 1].receiver_id = AgentId
           /\ appended[n] = Message(PlaceholderResponse, AgentId, UserOf("t1"))
      /\ (pc["t1"] = "return" /\ n <= max_messages) => messages = appended
      /\ pc["t1"] = "idle" =>
           /\ n = 2 * l.sends
           /\ l.sends > 0 => last.ret = appended[n].content

C24_Witness ==
  /\ pc["t1"] = "return"
  /\ local["t1"].sends = 1
  /\ Len(messages) = 4
  /\ Len(messages) <= max_messages
  /\ messages = appended
  /\ messages[3].content # messages[1].content

\* C26: add_or_update on a key that already exists replaces that key's value
\* by the truncated new value, keeps the block count, keeps nothing of the
\* old value, and leaves every other key's value unchanged.
C26_OverwriteReplaces ==
  (last.op = "add_or_update" /\ last.key \in DOMAIN last.before) =>
    /\ blocks[last.key]
         = SubSeq(last.value, 1, Min(Len(last.value), max_block_size))
    /\ DOMAIN blocks = DOMAIN last.before
    /\ CoreMemory_count = Cardinality(DOMAIN last.before)
    /\ \A k \in DOMAIN blocks \ {last.key} : blocks[k] = last.before[k]

C26_Witness ==
  /\ last.op = "add_or_update"
  /\ last.key \in DOMAIN last.before
  /\ last.before[last.key] # blocks[last.key]
  /\ Len(last.value) > max_block_size
  /\ CoreMemory_count = 2

\* t begins with the elements of s.
IsPrefix(s, t) ==
  /\ Len(s) <= Len(t)
  /\ \A i \in 1..Len(s) : t[i] = s[i]

\* t is s without its i-th element, the others in their order.
WithoutIndex(s, t, i) ==
  /\ Len(t) = Len(s) - 1
  /\ \A j \in 1..Len(t) : t[j] = IF j < i THEN s[j] ELSE s[j + 1]

\* C27: ArchivalMemory is append-only except for explicit removal: add places
\* the new item after all existing items, no operation changes the id or the
\* content of an existing item, delete removes only the targeted item, and
\* the surviving items keep their relative insertion order.
C27_AppendOnlyExceptDelete ==
  [][ /\ \A content \in Contents :
           ArchivalMemory_add(content) =>
             /\ Len(items') = Len(items) + 1
             /\ IsPrefix(items, items')
             /\ items'[Len(items')].content = content
      /\ \A item_id \in {issued[i] : i \in 1..Len(issued)} \cup {AbsentId} :
           ArchivalMemory_delete(item_id) =>
             \/ /\ \A i \in 1..Len(items) : items[i].id # item_id
                /\ items' = items
             \/ \E i \in 1..Len(items) :
                  /\ items[i].id = item_id
                  /\ WithoutIndex(items, items', i)
      /\ \/ items' = items
         \/ IsPrefix(items, items')
         \/ \E i \in 1..Len(items) : WithoutIndex(items, items', i)
         \/ ArchivalMemory_clear
    ]_vars

C27_Witness ==
  /\ last.op = "archival_delete"
  /\ last.ret
  /\ Len(items) = 1
  /\ items[1].id # last.item_id
  /\ items[1].id = ItemId(0, 1)

\* C28: delete(id) returns false and leaves the store unchanged when no
\* stored item has that id; when an item has that id it returns true, the
\* count decreases by exactly one, and get(id) afterwards finds nothing.
C28_DeleteByIdRemovesIt ==
  [][ \A item_id \in {issued[i] : i \in 1..Len(issued)} \cup {AbsentId} :
        ArchivalMemory_delete(item_id) =>
          IF \A i \in 1..Len(items) : items[i].id # item_id
          THEN /\ last'.ret = FALSE
               /\ items' = items
          ELSE /\ last'.ret = TRUE
               /\ Len(items') = Len(items) - 1
               /\ FirstIndexOf(items', item_id) = 0
    ]_vars

\* ---------------------------------------------------------- MemoryManager

\* sum(len(value) for value in d.values())
RECURSIVE DictTotalSize(_)
DictTotalSize(d) ==
  IF DOMAIN d = {} THEN 0
  ELSE LET k == CHOOSE x \in DOMAIN d : TRUE
       IN  Len(d[k]) + DictTotalSize(DictDel(d, k))

\* sum(len(x.content) for x in s)
RECURSIVE ContentTotalSize(_)
ContentTotalSize(s) ==
  IF s = <<>> THEN 0
  ELSE Len(Head(s).content) + ContentTotalSize(Tail(s))

CoreMemory_total_size == DictTotalSize(blocks)
ArchivalMemory_count == Len(items)
ArchivalMemory_total_size == ContentTotalSize(items)
RecallMemory_total_size == ContentTotalSize(messages)

MemoryManager_statsSwapped ==
  [core_memory |-> [count |-> CoreMemory_count,
                    total_size |-> CoreMemory_total_size],
   archival_memory |-> [count |-> RecallMemory_count,
                        total_size |-> RecallMemory_total_size],
   recall_memory |-> [count |-> ArchivalMemory_count,
                      total_size |-> ArchivalMemory_total_size]]

\* The dict get_memory_stats returns.
MemoryManager_stats ==
  [core_memory |-> [count |-> CoreMemory_count,
                    total_size |-> CoreMemory_total_size],
   archival_memory |-> [count |-> ArchivalMemory_count,
                        total_size |-> ArchivalMemory_total_size],
   recall_memory |-> [count |-> RecallMemory_count,
                      total_size |-> RecallMemory_total_size]]

MemoryManager_get_memory_stats ==
  /\ last' = [op |-> "get_memory_stats", ret |-> MemoryManager_stats]
  /\ UNCHANGED <<coreVars, recallVars, archivalVars, otherVars>>

\* get_core_memory, has_core_memory and get_all_core_memory.
MemoryManager_read_core(key) ==
  /\ last' = [op |-> "read_core", key |-> key, has |-> CoreMemory_has(key),
              all |-> blocks]
  /\ UNCHANGED <<coreVars, recallVars, archivalVars, otherVars>>

MemoryManager_clear_allButArchival ==
  /\ blocks' = EmptyDict
  /\ messages' = <<>>
  /\ appended' = <<>>
  /\ last' = [op |-> "clear_all", before |-> MemoryManager_stats]
  /\ UNCHANGED <<items, max_block_size, max_messages, now, issued, otherVars>>

\* clear_all: core_memory.clear(), archival_memory.clear(),
\* recall_memory.clear().
MemoryManager_clear_all ==
  /\ blocks' = EmptyDict
  /\ items' = <<>>
  /\ messages' = <<>>
  /\ appended' = <<>>
  /\ last' = [op |-> "clear_all", before |-> MemoryManager_stats]
  /\ UNCHANGED <<max_block_size, max_messages, now, issued, otherVars>>

\* What the callers of the MemoryManager store.
ManagedContents == {<<"a">>, <<"b", "a">>}

\* The MemoryManager methods, each the call of one store's method.
NextMemoryManager ==
  \/ \E key \in Keys, value \in ManagedContents :
       CoreMemory_add_or_update(key, value)
  \/ \E key \in Keys : MemoryManager_read_core(key)
  \/ \E content \in ManagedContents : ArchivalMemory_add(content)
  \/ Archival_search(<<"a">>, RecallSearchLimit)
  \/ \E content \in ManagedContents, user \in Users :
       RecallMemory_add(Message(content, user, AgentId))
  \/ Recall_search(<<"a">>, RecallSearchLimit)
  \/ Recall_get_recent(MaxLimit)
  \/ MemoryManager_get_memory_stats
  \/ MemoryManager_clear_all

SpecMemoryManager == InitArchival /\ [][NextMemoryManager]_vars

\* C29: every MemoryManager operation other than clear_all and
\* get_memory_stats acts on one store and leaves the two others unchanged;
\* get_memory_stats changes no store and reports for each tier the count and
\* the total size of its current contents. last' names the operation of
\* the step.
C29_OneStorePerOperation ==
  [][ /\ last'.op \in {"add_or_update", "read_core"}
           => UNCHANGED <<items, messages>>
      /\ last'.op \in {"archival_add", "archival_search"}
           => UNCHANGED <<blocks, messages>>
      /\ last'.op \in {"recall_add", "recall_search", "get_recent"}
           => UNCHANGED <<blocks, items>>
      /\ last'.op = "get_memory_stats" =>
           /\ UNCHANGED <<blocks, items, messages>>
           /\ last'.ret.core_memory
                = [count |-> Cardinality(DOMAIN blocks),
                   total_size |-> SumValues(blocks)]
           /\ last'.ret.archival_memory
                = [count |-> Len(items),
                   total_size |-> SumLen(ContentsOf(items))]
           /\ last'.ret.recall_memory
                = [count |-> Len(messages),
                   total_size |-> SumLen(ContentsOf(messages))]
    ]_vars

C29_Witness ==
  /\ last.op = "get_memory_stats"
  /\ last.ret.core_memory = [count |-> 2, total_size |-> 3]
  /\ last.ret.archival_memory = [count |-> 1, total_size |-> 2]
  /\ last.ret.recall_memory = [count |-> 3, total_size |-> 4]

\* The stats of three empty stores.
EmptyStats ==
  LET zero == [count |-> 0, total_size |-> 0]
  IN  [core_memory |-> zero, archival_memory |-> zero, recall_memory |-> zero]

\* C30: clear_all leaves core, archival and recall memory empty, every
\* tier's count and total_size 0, and no other operation of the
\* MemoryManager, of which the Agent's are sequences, empties a store that
\* held something. last' names the operation of the step.
C30_OnlyClearAllEmpties ==
  [][ /\ last'.op = "clear_all" =>
           /\ blocks' = EmptyDict
           /\ items' = <<>>
           /\ messages' = <<>>
           /\ MemoryManager_stats' = EmptyStats
      /\ last'.op # "clear_all" =>
           /\ blocks # EmptyDict => blocks' # EmptyDict
           /\ items # <<>> => items' # <<>>
           /\ messages # <<>> => messages' # <<>>
    ]_vars

C30_Witness ==
  /\ last.op = "clear_all"
  /\ last.before.core_memory.count = 2
  /\ last.before.archival_memory.count = 2
  /\ last.before.recall_memory.count = 3
  /\ MemoryManager_stats = EmptyStats

\* ------------------------------------------------- Server: agents by id

\* The ids create_agent draws, f"agent-{uuid.uuid4().hex[:8]}".
AgentIds == {"agent-1", "agent-2"}

\* The persona of the agent's database record.
Personas == {<<"a">>, <<"b">>}

\* The objects _load_agent constructs, in the order it constructs them:
\* MemoryManager() runs the default factories CoreMemory, ArchivalMemory and
\* RecallMemory, Agent.__init__ constructs ToolManager(agent_id=self.id) and
\* CommunicationManager(agent_id=self.id). core_memory of a ToolManager is
\* the store the lambdas of its memory tools close over, 0 before
\* add_memory_tools.
CoreMemoryObject ==
  [cls |-> "CoreMemory", blocks |-> EmptyDict,
   max_block_size |-> DefaultMaxBlockSize]
ArchivalMemoryObject == [cls |-> "ArchivalMemory", items |-> <<>>]
RecallMemoryObject ==
  [cls |-> "RecallMemory", messages |-> <<>>,
   max_messages |-> DefaultMaxMessages]
ToolManagerObject(agent_id) ==
  [cls |-> "ToolManager", agent_id |-> agent_id, tools |-> <<>>,
   core_memory |-> 0]
CommunicationManagerObject(agent_id) ==
  [cls |-> "CommunicationManager", agent_id |-> agent_id,
   message_queue |-> <<>>, max_queue_size |-> DefaultMaxQueueSize]

NewRefOfFirstAgent(h, n) == n

\* The reference of the n-th object constructed on top of the heap h: every
\* constructor call and every default factory returns a new object.
NewRef(h, n) == Len(h) + n

\* The Agent _load_agent builds for agent_id over the heap h: the heap with
\* the new objects and the persona block, and the agent's references.
LoadAgent(h, agent_id, persona) ==
  LET h1 == h \o << CoreMemoryObject, ArchivalMemoryObject,
                    RecallMemoryObject, ToolManagerObject(agent_id),
                    CommunicationManagerObject(agent_id) >>
      agent == [core_memory |-> NewRef(h, 1),
                archival_memory |-> NewRef(h, 2),
                recall_memory |-> NewRef(h, 3),
                tool_manager |-> NewRef(h, 4),
                communication_manager |-> NewRef(h, 5)]
      core == h1[agent.core_memory]
  IN  [agent |-> agent,
       heap |-> IF "persona" \in DOMAIN core.blocks
                THEN h1
                ELSE [h1 EXCEPT ![agent.core_memory].blocks =
                        DictSet(core.blocks, "persona",
                                Truncate(persona, core.max_block_size))]]

\* save_agent: the row of agent_id is inserted, or updated where there is
\* one. Of the record only the persona is read back by the model.
Database_save_agent(agent_id, persona) ==
  [database EXCEPT !.agents = DictSet(@, agent_id, [persona |-> persona])]

\* Whether another _load_agent fits the bound on the agents loaded since
\* the server started, one per id; each leaves five objects on the heap.
MayLoad == Len(heap) < 5 * Cardinality(AgentIds)

\* POST /agents: an id drawn by uuid4, the database record, _load_agent
\* whether or not the id is cached, the cache entry. get_memory_blocks is
\* empty: the server never saves a block.
Server_create_agent(agent_id, persona) ==
  /\ MayLoad
  /\ database' = Database_save_agent(agent_id, persona)
  /\ LET loaded == LoadAgent(heap, agent_id, persona)
     IN  /\ heap' = loaded.heap
         /\ agents' = DictSet(agents, agent_id, loaded.agent)
  /\ last' = [op |-> "create_agent", agent |-> agent_id, status |-> 200]
  /\ UNCHANGED <<served, coreVars, recallVars, archivalVars, mailboxVars,
                 agentVars, threadVars, toolVars, providerVars, callerVars>>

GetAgentOrDefault(agent_id) ==
  IF agent_id \in DOMAIN agents
  THEN [status |-> 200, agents |-> agents, heap |-> heap]
  ELSE LET loaded == LoadAgent(heap, agent_id, <<>>)
       IN  [status |-> 200, heap |-> loaded.heap,
            agents |-> DictSet(agents, agent_id, loaded.agent)]

\* _get_agent(agent_id): the cached Agent; for an id that is not cached,
\* HTTPException(404) where the database has no row of it, and otherwise
\* the Agent _load_agent builds and caches. The cache and the heap
\* afterwards.
GetAgent(agent_id) ==
  IF agent_id \in DOMAIN agents
  THEN [status |-> 200, agents |-> agents, heap |-> heap]
  ELSE IF agent_id \notin DOMAIN database.agents
  THEN [status |-> 404, agents |-> agents, heap |-> heap]
  ELSE LET loaded ==
             LoadAgent(heap, agent_id, database.agents[agent_id].persona)
       IN  [status |-> 200, heap |-> loaded.heap,
            agents |-> DictSet(agents, agent_id, loaded.agent)]

\* What every request on an agent does besides its own effect: it is
\* counted, and where the agent has to be loaded there is room for it.
ServerFrame(agent_id) ==
  /\ served < MaxRequests
  /\ served' = served + 1
  /\ agent_id \in DOMAIN agents \/ MayLoad
  /\ UNCHANGED <<database, coreVars, recallVars, archivalVars, mailboxVars,
                 agentVars, threadVars, toolVars, providerVars, callerVars>>

\* A request on a cached agent that is not one of the server's routes.
AgentFrame(agent_id) ==
  /\ agent_id \in DOMAIN agents
  /\ served < MaxRequests
  /\ served' = served + 1
  /\ UNCHANGED <<agents, database, coreVars, recallVars, archivalVars,
                 mailboxVars, agentVars, threadVars, toolVars, providerVars,
                 callerVars>>

\* The routes that only read: GET /agents/{agent_id}, .../memory/core,
\* .../memory/recall and .../memory/archival/search.
ReadRoutes ==
  {"get_agent", "get_core_memory", "get_recent_messages", "search_archival"}

Server_read(route, agent_id) ==
  /\ LET got == GetAgent(agent_id)
     IN  /\ agents' = got.agents
         /\ heap' = got.heap
         /\ last' = [op |-> route, agent |-> agent_id, status |-> got.status]
  /\ ServerFrame(agent_id)

\* POST /agents/{agent_id}/messages: Agent.send_message adds the user's
\* message and the response to the agent's recall memory.
Server_send_message(agent_id, content) ==
  /\ LET got == GetAgent(agent_id)
     IN  /\ agents' = got.agents
         /\ last' = [op |-> "send_message", agent |-> agent_id,
                     status |-> got.status]
         /\ IF got.status = 404
            THEN heap' = got.heap
            ELSE LET r == got.agents[agent_id].recall_memory
                     recall == got.heap[r]
                 IN  heap' = [got.heap EXCEPT ![r].messages =
                       AppendAndTrim(
                         AppendAndTrim(recall.messages,
                                       Message(content, "user", agent_id),
                                       recall.max_messages),
                         Message(PlaceholderResponse, agent_id, "user"),
                         recall.max_messages)]
  /\ ServerFrame(agent_id)

\* POST /agents/{agent_id}/memory/core/{key}.
Server_update_core_memory(agent_id, key, value) ==
  /\ LET got == GetAgent(agent_id)
     IN  /\ agents' = got.agents
         /\ last' = [op |-> "update_core_memory", agent |-> agent_id,
                     status |-> got.status]
         /\ IF got.status = 404
            THEN heap' = got.heap
            ELSE LET r == got.agents[agent_id].core_memory
                 IN  heap' = [got.heap EXCEPT ![r].blocks =
                       DictSet(got.heap[r].blocks, key,
                               Truncate(value, got.heap[r].max_block_size))]
  /\ ServerFrame(agent_id)

\* POST /agents/{agent_id}/memory/archival.
Server_add_to_archival(agent_id, content) ==
  /\ LET got == GetAgent(agent_id)
     IN  /\ agents' = got.agents
         /\ last' = [op |-> "add_to_archival", agent |-> agent_id,
                     status |-> got.status]
         /\ IF got.status = 404
            THEN heap' = got.heap
            ELSE LET r == got.agents[agent_id].archival_memory
                 IN  heap' = [got.heap EXCEPT ![r].items =
                       Append(got.heap[r].items,
                              ArchivalMemoryItem(
                                ItemId(now, Len(got.heap[r].items)),
                                content))]
  /\ ServerFrame(agent_id)

\* agent.tool_manager.add_memory_tools(agent.memory_manager.core_memory),
\* part of setting the agent up and not counted as a request.
Agent_add_memory_tools(agent_id) ==
  /\ agent_id \in DOMAIN agents
  /\ LET r == agents[agent_id].tool_manager
     IN  heap' = [heap EXCEPT
           ![r].tools = RegisterTool(RegisterTool(RegisterTool(
                          heap[r].tools, MemoryTools[1]), MemoryTools[2]),
                          MemoryTools[3]),
           ![r].core_memory = agents[agent_id].core_memory]
  /\ last' = [op |-> "add_memory_tools", agent |-> agent_id, status |-> 200]
  /\ UNCHANGED <<agents, served, database, coreVars, recallVars,
                 archivalVars, mailboxVars, agentVars, threadVars, toolVars,
                 providerVars, callerVars>>

\* agent.tool_manager.execute_tool(name, **kwargs): the handler runs on the
\* store its lambda closed over.
Agent_execute_tool(agent_id, name, kwargs) ==
  /\ agent_id \in DOMAIN agents
  /\ LET manager == heap[agents[agent_id].tool_manager]
         i == IndexOfName(manager.tools, name)
         r == manager.core_memory
     IN  IF i = 0
         THEN /\ heap' = heap
              /\ last' = [op |-> "execute_tool", agent |-> agent_id,
                          status |-> 200,
                          raised |-> "ValueError: not found"]
         ELSE LET out == Tool_execute(manager.tools[i], kwargs,
                                      heap[r].blocks)
              IN  /\ heap' = [heap EXCEPT ![r].blocks = out.blocks]
                  /\ last' = [op |-> "execute_tool", agent |-> agent_id,
                              status |-> 200, raised |-> out.raised]
  /\ AgentFrame(agent_id)

\* agent.communication_manager.receive_message(message).
Agent_receive_message(agent_id, message) ==
  /\ agent_id \in DOMAIN agents
  /\ LET r == agents[agent_id].communication_manager
         mailbox == heap[r]
     IN  IF message.receiver_id # mailbox.agent_id
         THEN /\ heap' = heap
              /\ last' = [op |-> "receive_message", agent |-> agent_id,
                          status |-> 200, raised |-> "ValueError"]
         ELSE /\ heap' = [heap EXCEPT ![r].message_queue =
                   AppendAndTrim(mailbox.message_queue, message,
                                 mailbox.max_queue_size)]
              /\ last' = [op |-> "receive_message", agent |-> agent_id,
                          status |-> 200, raised |-> None]
  /\ AgentFrame(agent_id)

\* agent.communication_manager.get_pending_messages().
Agent_get_pending_messages(agent_id) ==
  /\ agent_id \in DOMAIN agents
  /\ LET r == agents[agent_id].communication_manager
     IN  heap' = [heap EXCEPT ![r].message_queue = <<>>]
  /\ last' = [op |-> "get_pending_messages", agent |-> agent_id,
              status |-> 200]
  /\ AgentFrame(agent_id)

\* The tool calls made on an agent: a write and a delete of the block "k".
ServerToolCalls ==
  { <<"core_memory_add", [key |-> "k", value |-> <<"b">>]>>,
    <<"core_memory_delete", [key |-> "k"]>> }

NextServer ==
  \/ \E agent_id \in AgentIds, persona \in Personas :
       Server_create_agent(agent_id, persona)
  \/ \E route \in ReadRoutes, agent_id \in AgentIds :
       Server_read(route, agent_id)
  \/ \E agent_id \in AgentIds : Server_send_message(agent_id, <<"a">>)
  \/ \E agent_id \in AgentIds :
       Server_update_core_memory(agent_id, "k", <<"a">>)
  \/ \E agent_id \in AgentIds : Server_add_to_archival(agent_id, <<"a">>)
  \/ \E agent_id \in AgentIds : Agent_add_memory_tools(agent_id)
  \/ \E agent_id \in AgentIds, call \in ServerToolCalls :
       Agent_execute_tool(agent_id, call[1], call[2])
  \/ \E agent_id \in AgentIds, receiver_id \in AgentIds :
       Agent_receive_message(agent_id, Message(<<"a">>, "user", receiver_id))
  \/ \E agent_id \in AgentIds : Agent_get_pending_messages(agent_id)

\* The database file Server(db_path) opens: a new one, or the file of an
\* earlier run in which agent-2 was created.
SavedBefore ==
  { EmptyDatabase,
    [EmptyDatabase EXCEPT
       !.agents = DictSet(EmptyDict, "agent-2", [persona |-> <<"b">>])] }

\* Server(db_path): an empty cache over the database file.
InitServer ==
  /\ system_prompt = 0
  /\ context_window_limit = DefaultContextWindowLimit
  /\ generated = {}
  /\ tools = <<>>
  /\ api_calls = 0
  /\ agents = EmptyDict
  /\ heap = <<>>
  /\ served = 0
  /\ database \in SavedBefore
  /\ snapshot = <<>>
  /\ InitMailbox({DefaultMaxQueueSize})
  /\ InitThreads
  /\ InitCoreMemory({DefaultMaxBlockSize})
  /\ InitRecallMemory({DefaultMaxMessages})
  /\ InitArchivalMemory
  /\ last = [op |-> "init"]

SpecServer == InitServer /\ [][NextServer]_vars

\* The store objects of a cached agent, by reference and by content.
StoreRefs(agent) ==
  {agent.core_memory, agent.archival_memory, agent.recall_memory,
   agent.communication_manager}
StoresOf(h, agent) ==
  [core_memory |-> h[agent.core_memory],
   archival_memory |-> h[agent.archival_memory],
   recall_memory |-> h[agent.recall_memory],
   communication_manager |-> h[agent.communication_manager]]

\* The operations on one cached agent.
AgentOperations ==
  {"send_message", "update_core_memory", "add_to_archival", "execute_tool",
   "receive_message", "get_pending_messages"}

\* C25: agents never share store instances. No two distinct agents the
\* server has loaded hold the same core, archival or recall memory or
\* mailbox object, and every operation on one agent (send_message,
\* core-memory update, archival add, tool execution, mailbox receive or
\* drain) leaves every other agent's four stores as they were.
C25_AgentsNeverShareStores ==
  [][ /\ \A a, b \in DOMAIN agents' :
           a # b => StoreRefs(agents'[a]) \cap StoreRefs(agents'[b]) = {}
      /\ last'.op \in AgentOperations =>
           \A b \in DOMAIN agents \ {last'.agent} :
             /\ agents'[b] = agents[b]
             /\ StoresOf(heap', agents'[b]) = StoresOf(heap, agents[b]) ]_vars

\* Both agents are loaded, agent-2's block "k" was written through the
\* server, and the last operation, a tool call on agent-1, wrote a
\* different value under the same key into agent-1's store.
C25_Witness ==
  /\ DOMAIN agents = AgentIds
  /\ last.op = "execute_tool"
  /\ last.agent = "agent-1"
  /\ last.raised = None
  /\ "k" \in DOMAIN heap[agents["agent-1"].core_memory].blocks
  /\ "k" \in DOMAIN heap[agents["agent-2"].core_memory].blocks
  /\ heap[agents["agent-1"].core_memory].blocks["k"] = <<"b">>
  /\ heap[agents["agent-2"].core_memory].blocks["k"] = <<"a">>

\* ------------------------------------------------------ CoreMemory.delete

\* C31: delete(key) of a key that is not present raises nothing and leaves
\* every block as it was; delete of a present key removes exactly that key
\* and leaves every other block as it was.
C31_DeleteIsExact ==
  last.op = "core_delete" =>
    /\ last.raised = None
    /\ DOMAIN blocks = DOMAIN last.before \ {last.key}
    /\ \A key \in DOMAIN blocks : blocks[key] = last.before[key]
    /\ last.key \notin DOMAIN last.before => blocks = last.before

\* A delete of a key that is not present, with a block stored.
C31_Witness ==
  /\ last.op = "core_delete"
  /\ last.key \notin DOMAIN last.before
  /\ blocks # EmptyDict

\* ----------------------------------------------------- CoreMemory.get_all

DictAlias(d) == [alias |-> TRUE, value |-> d]

\* d.copy(): a new dict with the entries of d, which is not d itself.
DictCopy(d) == [alias |-> FALSE, value |-> d]

\* get_all(), and get_all_core_memory() which returns its result: the
\* caller holds what is returned.
CoreMemory_get_all ==
  /\ snapshot' = <<DictCopy(blocks)>>
  /\ last' = [op |-> "get_all"]
  /\ UNCHANGED <<coreVars, recallVars, archivalVars, mailboxVars, agentVars,
                 threadVars, toolVars, providerVars, serverVars>>

\* What the caller's dict holds once the store's blocks are newBlocks.
HeldAfter(newBlocks) ==
  IF snapshot # <<>> /\ snapshot[1].alias
  THEN <<[snapshot[1] EXCEPT !.value = newBlocks]>>
  ELSE snapshot

\* add_or_update and delete while the caller holds a dict from get_all.
Held_add_or_update(key, value) ==
  /\ snapshot # <<>>
  /\ blocks' = DictSet(blocks, key, Truncate(value, max_block_size))
  /\ snapshot' = HeldAfter(blocks')
  /\ last' = [op |-> "held_add_or_update", snapshot_before |-> snapshot]
  /\ UNCHANGED <<max_block_size, recallVars, archivalVars, mailboxVars,
                 agentVars, threadVars, toolVars, providerVars, serverVars>>

Held_delete(key) ==
  /\ snapshot # <<>>
  /\ blocks' = IF key \in DOMAIN blocks THEN DictDel(blocks, key) ELSE blocks
  /\ snapshot' = HeldAfter(blocks')
  /\ last' = [op |-> "held_delete", snapshot_before |-> snapshot]
  /\ UNCHANGED <<max_block_size, recallVars, archivalVars, mailboxVars,
                 agentVars, threadVars, toolVars, providerVars, serverVars>>

\* What the store's blocks are once the caller's dict holds newValue.
BlocksAfter(newValue) == IF snapshot[1].alias THEN newValue ELSE blocks

\* The caller's `returned[key] = value` and `del returned[key]` on the dict
\* get_all returned.
Snapshot_setitem(key, value) ==
  /\ snapshot # <<>>
  /\ snapshot' = <<[snapshot[1] EXCEPT !.value = DictSet(@, key, value)]>>
  /\ blocks' = BlocksAfter(snapshot'[1].value)
  /\ last' = [op |-> "setitem", blocks_before |-> blocks]
  /\ UNCHANGED <<max_block_size, recallVars, archivalVars, mailboxVars,
                 agentVars, threadVars, toolVars, providerVars, serverVars>>

Snapshot_delitem(key) ==
  /\ snapshot # <<>>
  /\ key \in DOMAIN snapshot[1].value
  /\ snapshot' = <<[snapshot[1] EXCEPT !.value = DictDel(@, key)]>>
  /\ blocks' = BlocksAfter(snapshot'[1].value)
  /\ last' = [op |-> "delitem", blocks_before |-> blocks]
  /\ UNCHANGED <<max_block_size, recallVars, archivalVars, mailboxVars,
                 agentVars, threadVars, toolVars, providerVars, serverVars>>

\* The values written to the store and into the returned dict.
SnapshotValues == {<<"a">>, <<"b">>}

NextSnapshot ==
  \/ /\ snapshot = <<>>
     /\ \E key \in Keys, value \in SnapshotValues :
          CoreMemory_add_or_update(key, value)
  \/ CoreMemory_get_all
  \/ \E key \in Keys, value \in SnapshotValues :
       Held_add_or_update(key, value)
  \/ \E key \in Keys : Held_delete(key)
  \/ \E key \in Keys, value \in SnapshotValues : Snapshot_setitem(key, value)
  \/ \E key \in Keys : Snapshot_delitem(key)

SpecSnapshot == InitCore /\ [][NextSnapshot]_vars

\* C32: get_all returns a snapshot copy. What it returns holds the store's
\* blocks; adding, changing or removing entries in the returned mapping
\* leaves the store's blocks as they were; and a write or delete on the
\* store leaves a mapping returned earlier as it was.
C32_GetAllIsSnapshot ==
  /\ last.op = "get_all" => snapshot[1].value = blocks
  /\ last.op \in {"setitem", "delitem"} => blocks = last.blocks_before
  /\ last.op \in {"held_add_or_update", "held_delete"} =>
       snapshot = last.snapshot_before

\* The caller changed an entry of the returned mapping which the store
\* holds too, and the store still holds its own value.
C32_Witness ==
  /\ last.op = "setitem"
  /\ \E key \in DOMAIN blocks :
       /\ key \in DOMAIN snapshot[1].value
       /\ snapshot[1].value[key] # blocks[key]

\* ----------------------------------- CommunicationManager.send_message

\* The receivers and texts send_message is called with; the sender itself
\* is among the receivers.
SendReceivers == {AgentId, "peer"}
SendContents == {<<"a">>, <<"b">>}

CommunicationManager_send_messageEnqueued(receiver_id, content) ==
  /\ message_queue' =
       Append(message_queue, Message(content, AgentId, receiver_id))
  /\ last' = [op |-> "send_message", receiver_id |-> receiver_id,
              content |-> content,
              ret |-> Message(content, AgentId, receiver_id),
              before |-> message_queue]
  /\ UNCHANGED <<max_queue_size, accepted, drained, coreVars, recallVars,
                 archivalVars, agentVars, threadVars, toolVars, providerVars,
                 serverVars, callerVars>>

\* send_message(receiver_id, content): the Message is constructed and
\* returned.
CommunicationManager_send_message(receiver_id, content) ==
  /\ last' = [op |-> "send_message", receiver_id |-> receiver_id,
              content |-> content,
              ret |-> Message(content, AgentId, receiver_id),
              before |-> message_queue]
  /\ UNCHANGED <<mailboxVars, coreVars, recallVars, archivalVars, agentVars,
                 threadVars, toolVars, providerVars, serverVars, callerVars>>

NextMailboxSend ==
  \/ NextMailbox
  \/ \E receiver_id \in SendReceivers, content \in SendContents :
       CommunicationManager_send_message(receiver_id, content)

SpecMailboxSend == InitMailboxOnly /\ [][NextMailboxSend]_vars

\* C33: send_message only constructs and returns a message whose sender_id
\* is the sender's own agent_id and whose receiver_id and content are the
\* ones given; the sender's own queue is as it was before the call.
C33_SendOnlyConstructs ==
  last.op = "send_message" =>
    /\ last.ret = Message(last.content, AgentId, last.receiver_id)
    /\ last.ret.sender_id = AgentId
    /\ last.ret.receiver_id = last.receiver_id
    /\ message_queue = last.before

\* A message the sender addressed to itself, with its queue holding what it
\* received before and nothing more.
C33_Witness ==
  /\ last.op = "send_message"
  /\ last.receiver_id = AgentId
  /\ message_queue # <<>>
  /\ message_queue = last.before
  /\ drained = <<>>
  /\ Len(message_queue) = Len(accepted)

\* ------------------------------------------- the recipients of the queue

\* C35: in every reachable state of a mailbox whose queue is changed only
\* through receive_message and get_pending_messages, every queued message
\* has receiver_id equal to the mailbox's agent_id.
C35_QueuedAreForThisAgent ==
  \A i \in 1..Len(message_queue) : message_queue[i].receiver_id = AgentId

\* Two messages are queued and the last call, for another agent's message,
\* was refused.
C35_Witness ==
  /\ last.op = "receive_message"
  /\ last.raised = "ValueError"
  /\ last.message.receiver_id # AgentId
  /\ Len(message_queue) = 2

\* ------------------------------------- the recall slice of the context

\* C36: send_message appends the inbound message to recall memory before
\* it searches recall with that message's content, so for every
\* max_messages >= 1 the recall slice of the assembled context is not empty
\* and its first, most recent, element is the message just received.
C36_ContextHoldsInboundFirst ==
  \A t \in Threads :
    (pc[t] = "call" /\ max_messages >= 1) =>
      LET context == local[t].context
      IN  /\ context.current_message = local[t].message
          /\ context.recall_memory # <<>>
          /\ context.recall_memory[1] = context.current_message

\* --------------------------------------------------------- Agent.__init__

\* The personas agents are constructed with, and the values the supplied
\* memory manager was given before.
InitPersonas == {<<>>, <<"a">>, <<"b", "a">>}

Agent_initOverwrites(persona) ==
  /\ blocks' = DictSet(blocks, "persona", Truncate(persona, max_block_size))
  /\ system_prompt' = BuildSystemPrompt(1, 0)
  /\ tools' = <<>>
  /\ message_queue' = <<>>
  /\ max_queue_size' = DefaultMaxQueueSize
  /\ last' = [op |-> "agent_init", persona |-> persona, before |-> blocks]
  /\ UNCHANGED <<max_block_size, accepted, drained, context_window_limit,
                 generated, recallVars, archivalVars, threadVars,
                 providerVars, serverVars, callerVars>>

\* Agent(..., persona=persona, memory_manager=<the stores>): a new
\* ToolManager and CommunicationManager, the persona block where the memory
\* manager has none, the system prompt built around a one-character base
\* prompt.
Agent_init(persona) ==
  /\ blocks' = IF CoreMemory_has("persona")
               THEN blocks
               ELSE DictSet(blocks, "persona",
                            Truncate(persona, max_block_size))
  /\ system_prompt' = BuildSystemPrompt(1, 0)
  /\ tools' = <<>>
  /\ message_queue' = <<>>
  /\ max_queue_size' = DefaultMaxQueueSize
  /\ last' = [op |-> "agent_init", persona |-> persona, before |-> blocks]
  /\ UNCHANGED <<max_block_size, accepted, drained, context_window_limit,
                 generated, recallVars, archivalVars, threadVars,
                 providerVars, serverVars, callerVars>>

NextAgentInit ==
  \/ \E key \in Keys, value \in InitPersonas :
       CoreMemory_add_or_update(key, value)
  \/ \E key \in Keys : CoreMemory_delete(key)
  \/ \E persona \in InitPersonas : Agent_init(persona)

SpecAgentInit == InitCore /\ [][NextAgentInit]_vars

\* C38: constructing an Agent never overwrites an existing "persona" block.
\* Where the supplied memory manager has the key, every block is as it
\* was; where it has not, the block is set to the persona cut to
\* max_block_size characters; either way the key is present afterwards and
\* no other block has changed.
C38_PersonaNotOverwritten ==
  last.op = "agent_init" =>
    /\ "persona" \in DOMAIN blocks
    /\ DOMAIN blocks = DOMAIN last.before \cup {"persona"}
    /\ \A key \in DOMAIN last.before : blocks[key] = last.before[key]
    /\ "persona" \notin DOMAIN last.before =>
         blocks["persona"] =
           IF Len(last.persona) > max_block_size
           THEN FirstChars(last.persona, max_block_size)
           ELSE last.persona

\* An agent constructed over a memory manager whose persona block differs
\* from the agent's persona, next to another block.
C38_Witness ==
  /\ last.op = "agent_init"
  /\ "persona" \in DOMAIN last.before
  /\ "k" \in DOMAIN last.before
  /\ max_block_size >= 2
  /\ blocks["persona"] # last.persona
  /\ last.persona # <<>>

\* --------------------------------------------------- Server._get_agent

\* The routes that take an agent id.
AgentRoutes ==
  ReadRoutes \cup {"send_message", "update_core_memory", "add_to_archival"}

\* C34: on every route that takes an agent id, a request naming an id that
\* is neither cached nor in the database is answered 404, adds no agent to
\* the cache and changes no agent's memory (nor the database).
C34_UnknownAgentNotFound ==
  [][ ( /\ last'.op \in AgentRoutes
        /\ last'.agent \notin DOMAIN agents
        /\ last'.agent \notin DOMAIN database.agents )
      => /\ last'.status = 404
         /\ agents' = agents
         /\ heap' = heap
         /\ database' = database ]_vars

\* A core-memory update for an unknown id was answered 404 while another
\* agent, with a block of that key, is cached.
C34_Witness ==
  /\ last.op = "update_core_memory"
  /\ last.status = 404
  /\ last.agent \notin DOMAIN agents
  /\ last.agent \notin DOMAIN database.agents
  /\ \E a \in DOMAIN agents : "k" \in DOMAIN heap[agents[a].core_memory].blocks

\* C37: once an agent id is cached, every later request is served by the
\* same Agent instance: _load_agent runs for an id only when it is not
\* cached, so the objects holding a cached agent's core, archival and recall
\* state are never replaced.
C37_CachedAgentKept ==
  [][ /\ \A a \in DOMAIN agents :
           /\ a \in DOMAIN agents'
           /\ agents'[a] = agents[a]
      /\ Len(heap') > Len(heap) => last'.agent \notin DOMAIN agents ]_vars

\* ---------------------------------------------- Database: message rows

\* f"msg-{agent_id}-{current_time}" and f"arch-{agent_id}-{current_time}":
\* the prefix, the agent id and the second, which the string determines as
\* long as no agent id ends in "-" and digits.
RowId(prefix, agent_id, current_time) == <<prefix, agent_id, current_time>>

\* cursor.execute("INSERT INTO <table> (id, ...) VALUES (...)") followed by
\* commit and return of the id: id is the table's PRIMARY KEY, so the
\* INSERT of an id the table holds raises sqlite3.IntegrityError and leaves
\* the table as it was. ret is <<>> where nothing is returned.
InsertRow(table, id, row) ==
  IF id \in DOMAIN table
  THEN [raised |-> "sqlite3.IntegrityError", ret |-> <<>>, table |-> table]
  ELSE [raised |-> None, ret |-> <<id>>, table |-> DictSet(table, id, row)]

\* save_message(agent_id, sender_id, receiver_id, content).
Database_save_message(agent_id, content) ==
  /\ agent_id \in DOMAIN database.agents
  /\ LET out == InsertRow(database.recall_memory,
                          RowId("msg", agent_id, now),
                          [agent_id |-> agent_id, content |-> content,
                           created_at |-> now])
     IN  /\ database' = [database EXCEPT !.recall_memory = out.table]
         /\ last' = [op |-> "save_message", agent |-> agent_id,
                     raised |-> out.raised, ret |-> out.ret,
                     before |-> DOMAIN database.recall_memory]
  /\ UNCHANGED <<agents, heap, served, coreVars, recallVars, archivalVars,
                 mailboxVars, agentVars, threadVars, toolVars, providerVars,
                 callerVars>>

\* save_archival_memory(agent_id, content).
Database_save_archival_memory(agent_id, content) ==
  /\ agent_id \in DOMAIN database.agents
  /\ LET out == InsertRow(database.archival_memory,
                          RowId("arch", agent_id, now),
                          [agent_id |-> agent_id, content |-> content,
                           created_at |-> now])
     IN  /\ database' = [database EXCEPT !.archival_memory = out.table]
         /\ last' = [op |-> "save_archival_memory", agent |-> agent_id,
                     raised |-> out.raised, ret |-> out.ret,
                     before |-> DOMAIN database.archival_memory]
  /\ UNCHANGED <<agents, heap, served, coreVars, recallVars, archivalVars,
                 mailboxVars, agentVars, threadVars, toolVars, providerVars,
                 callerVars>>

\* save_agent(agent_data) of a caller.
Database_save_agent_row(agent_id, persona) ==
  /\ database' = Database_save_agent(agent_id, persona)
  /\ last' = [op |-> "save_agent", agent |-> agent_id, raised |-> None,
              ret |-> <<agent_id>>, before |-> DOMAIN database.agents]
  /\ UNCHANGED <<agents, heap, served, coreVars, recallVars, archivalVars,
                 mailboxVars, agentVars, threadVars, toolVars, providerVars,
                 callerVars>>

\* The text saved.
SavedContents == {<<"a">>}

NextDatabase ==
  \/ \E agent_id \in AgentIds, persona \in Personas :
       Database_save_agent_row(agent_id, persona)
  \/ \E agent_id \in AgentIds, content \in SavedContents :
       Database_save_message(agent_id, content)
  \/ \E agent_id \in AgentIds, content \in SavedContents :
       Database_save_archival_memory(agent_id, content)
  \/ Tick

SpecDatabase == InitServer /\ [][NextDatabase]_vars

\* C39: every save_message and save_archival_memory call for an existing
\* agent succeeds and returns an id distinct from every id returned for
\* that table before, however many calls for the same agent fall within
\* one clock second.
C39_SavedIdsDistinct ==
  last.op \in {"save_message", "save_archival_memory"} =>
    /\ last.raised = None
    /\ Len(last.ret) = 1
    /\ last.ret[1] \notin last.before

====
